---- MODULE Spec2Model ----
(***************************************************************************)
(* Verification model of the audit event stream service:                   *)
(*   - the Redis slot limiter       (src/src/limits/redis_limiter.py)      *)
(*   - the SSE stream session       (src/src/agents/audit_stream.py)       *)
(*   - the Redis metrics helper     (src/src/utils/redis_metrics.py)       *)
(*   - the JWKS key cache           (src/src/auth/jkws_middleware.py)      *)
(*   - the request rate limiters    (src/src/middleware/rate_limiter.py)   *)
(*   - the local metrics module     (src/src/metrics.py)                   *)
(*                                                                         *)
(* Time is a discrete clock counted in ticks of 1/TicksPerSec second, so   *)
(* that int(exp - time.time()) truncates as it does in the code.           *)
(***************************************************************************)
EXTENDS Integers, Sequences, FiniteSets, TLC

\* ------------------------------------------------------------------ bounds
NumSessions == 2
MaxTime == 4
MaxExpSec == 2
MaxInactivity == 2
MaxEvents == 1
TicksPerSec == 2
NumRequests == 2
MaxJwksTicks == 2
MaxPublished == 4
MaxMetric == 1
MaxCalls == 4
MaxLogCalls == 2
MaxConnections == 8

\* ------------------------------------------------- configuration (env vars)
\* STREAM_SLOT_TTL is read from the environment at audit_stream.py:50; the
\* model runs with a TTL of 1 second. MAX_STREAMS_PER_USER, read on the same
\* line, is the variable max_slots, fixed by the initial state.
STREAM_SLOT_TTL == 1

\* asyncio.Queue(maxsize=100) of audit_logger.py:110; the model runs with
\* channels of two events.
QUEUE_MAXSIZE == 2

\* JWKS_CACHE_TTL (jkws_middleware.py:29), in ticks of the key cache's clock.
JWKS_CACHE_TTL == 2

\* DEFAULT_RATE_LIMIT and DEFAULT_WINDOW (rate_limiter.py:21-22), the limit
\* and the period the middleware passes to both limiters; the model runs with
\* two requests per window of one second.
DEFAULT_RATE_LIMIT == 2
DEFAULT_WINDOW == 1

\* MAX_STREAMS_PER_USER of the local metrics module (metrics.py:21); the
\* model runs with two streams per user.
MAX_STREAMS_PER_USER == 2

Sessions == 1..NumSessions
\* Python None / a missing Redis key (Lua nil): a value no counter, time or
\* duration of the model takes.
Nil == -1000
NoSub == "None"
SubClaims == {NoSub, "alice"}
NoToken == [kind |-> "none"]
BadToken == [kind |-> "bad"]
GoodTokens == [kind : {"jwt"}, sub : SubClaims, exp : 1..MaxExpSec]
\* A verified token whose payload has no exp claim: payload.get("exp") is None.
NoExpTokens == [kind : {"jwt"}, sub : SubClaims, exp : {Nil}]
Tokens == {NoToken, BadToken} \cup GoodTokens \cup NoExpTokens
InactivityTtls == 0..MaxInactivity

\* f"streams:{user_sub}" : str(None) is "None", so a token without a sub claim
\* is admitted under the key "streams:None".
SlotKey(sub) == sub
SlotKeys == {SlotKey(sub) : sub \in SubClaims}

\* Python truthiness of the sub claim (None is falsy).
Truthy(sub) == sub # NoSub

Min(a, b) == IF a <= b THEN a ELSE b

\* int(x) of a duration of `ticks` ticks, in whole seconds: truncation toward 0.
IntSecs(ticks) == IF ticks >= 0 THEN ticks \div TicksPerSec
                  ELSE 0 - ((0 - ticks) \div TicksPerSec)

\* int(exp - time.time())
RemainingTtl(exp, t) == IntSecs(exp * TicksPerSec - t)

\* ------------------------------------------------ JWKS key cache: values
Requests == 1..NumRequests

\* Key ids a token header can name (a header without kid is refused before
\* the cache is consulted).
Kids == {"k1", "k2"}

\* k.get("kid") of one entry of the "keys" list: a key id, or "" for an entry
\* that carries none.
KidValues == Kids \cup {""}

\* What resp.json() can hand back from the JWKS endpoint:
\*   "jwks"  a JSON object with a well-formed "keys" list,
\*   "empty" the JSON object {} (falsy, jwks.get("keys", []) is []),
\*   "junk"  a truthy value the comprehension of line 78 cannot read
\*           (a non-empty list, an object whose "keys" holds non-objects),
\*   "null"  a falsy value it cannot read (null, [], "", 0, false).
Bodies == [kind : {"jwks"}, kids : SUBSET KidValues] \cup
          {[kind |-> "empty", kids |-> {}], [kind |-> "junk", kids |-> {}],
           [kind |-> "null", kids |-> {}]}

\* self._jwks is tested for truth and read for its keys; the model keeps the
\* kind of the value assigned to it ("None" after construction) in `jwks` and
\* the kid of each entry of its "keys" list in `jwks_kids`.
JwksKinds == {"None", "jwks", "empty", "junk", "null"}

\* bool(self._jwks)
JwksTruthy(j) == j \in {"jwks", "junk"}

\* Whether line 78 evaluates without raising on the body.
Parses(b) == b.kind \in {"jwks", "empty"}

\* A comprehension that keeps every entry of the "keys" list, those without
\* a kid included.
KeysOfAll(b) == b.kids

\* {k.get("kid"): k for k in jwks.get("keys", []) if k.get("kid")}
KeysByKid(b) == {k \in b.kids : k # ""}

\* self._jwks and (now - self._last_refresh) < self.ttl
IsFresh(j, lr, t) == JwksTruthy(j) /\ (t - lr) < JWKS_CACHE_TTL

\* except Exception: if not self._jwks: raise
FetchErrorRaised(j) == ~JwksTruthy(j)

\* asyncio.Lock.release(): the lock passes to the first waiter, if any
\* (0 = unlocked, no waiter).
ReleaseLock(q) == [holder |-> IF q = <<>> THEN 0 ELSE Head(q),
                   q |-> IF q = <<>> THEN <<>> ELSE Tail(q)]

\* get_signing_key from line 87 on, ensure_keys having returned: the lookup,
\* and for an absent kid the forced refresh, up to the first point where the
\* request has to wait.
GetKeyTail(r, k, keys, holder, q, lr) ==
    IF k \in keys
    THEN [pc |-> "done", res |-> "ok", holder |-> holder, q |-> q, lr |-> lr]
    ELSE IF holder = 0
    THEN [pc |-> "forced_refresh", res |-> "none", holder |-> r,
          q |-> Append(q, r), lr |-> 0]
    ELSE [pc |-> "gs_lock", res |-> "none", holder |-> holder,
          q |-> Append(q, r), lr |-> lr]

VARIABLES now, clients, redisUrlSet, redisUp, max_slots, inactivity_ttl, slots, slotExp,
          metrics, localActive, pc, tok, user_sub, acquired, failed_open, token_ttl, timeout, waitStart,
          nEvents, released, exitWhy,
          jnow, jwks, keys_by_kid, last_refresh, lockHolder, lockQ, rpc, kid, res,
          lastFetch, jwks_kids,
          subscribers, gen, queue, published, lastGot, item, frame,
          logged, request, response,
          rl_now, rl_up, rl_count, rl_exp, rl_pc, rl_val, rl_res, rl_err, rl_via,
          rl_calls, local_rate_limits, local_hist, local_metrics,
          prod_pc, prod_ev, log_calls, got

vars == <<now, clients, redisUrlSet, redisUp, max_slots, inactivity_ttl, slots, slotExp,
          metrics, localActive, pc, tok, user_sub, acquired, failed_open, token_ttl, timeout, waitStart,
          nEvents, released, exitWhy,
          jnow, jwks, keys_by_kid, last_refresh, lockHolder, lockQ, rpc, kid, res,
          lastFetch, jwks_kids,
          subscribers, gen, queue, published, lastGot, item, frame,
          logged, request, response,
          rl_now, rl_up, rl_count, rl_exp, rl_pc, rl_val, rl_res, rl_err, rl_via,
          rl_calls, local_rate_limits, local_hist, local_metrics,
          prod_pc, prod_ev, log_calls, got>>

jwksVars == <<jnow, jwks, keys_by_kid, last_refresh, lockHolder, lockQ, rpc, kid, res,
              lastFetch, jwks_kids>>

\* The outcome of the last AuditLogger.log call, and the last request to a
\* role-guarded endpoint with its response.
\* The request rate limiters: the store's counter key and the calls of the
\* middleware.
rlVars == <<rl_up, rl_count, rl_exp, rl_pc, rl_val, rl_res, rl_err, rl_via, rl_calls>>

\* The rate limiters' clock, the in-memory limiter's timestamps with the
\* record of its calls, and the counters of the local metrics module.
limVars == <<rl_now, rlVars, local_rate_limits, local_hist, local_metrics>>

\* The callers of AuditLogger.log: where each one stands, the event it
\* carries, and the number of calls made so far.
prodVars == <<prod_pc, prod_ev, log_calls>>

\* The second tuple leaves out `got`, the events each subscriber has been
\* handed so far, in the order it received them.
auxVars == <<logged, request, response, limVars, prodVars, got>>
auxVarsButGot == <<logged, request, response, limVars, prodVars>>

\* The broadcaster's channels: their contents and what was consumed.
bqVars == <<queue, published, lastGot>>

\* The broadcaster's subscriber list and the subscribe() generators.
subVars == <<subscribers, gen>>

\* Everything but the key cache and the rate limiters.
appVars == <<now, clients, redisUrlSet, redisUp, max_slots, inactivity_ttl, slots,
             slotExp, metrics, localActive, pc, tok, user_sub, acquired, failed_open,
             token_ttl, timeout, waitStart, nEvents, released, exitWhy,
             subscribers, gen, queue, published, lastGot, item, frame,
             logged, request, response, prodVars, got>>

streamVars == <<appVars, limVars>>

cfgVars == <<clients, redisUrlSet, max_slots, inactivity_ttl>>
sessVars == <<tok, user_sub, acquired, failed_open, token_ttl, timeout, waitStart,
              nEvents, released, exitWhy, item, frame>>

\* ------------------------------------------------------------ Redis store
\* The limiter's client reaches the store only when REDIS_URL is set
\* (RedisClient.get_client raises otherwise) and the server answers.
Reachable == redisUrlSet /\ redisUp

\* GET / tonumber of a counter key (a missing key reads as nil; INCR and DECR
\* treat it as 0).
Val(v) == IF v = Nil THEN 0 ELSE v

\* A script that increments first and compares afterwards: a refused call
\* leaves its increment (and, on a fresh key, a TTL) behind.
SlotAcquireIncrFirst(cur, ex, limit, ttl, t) ==
    [val |-> Val(cur) + 1,
     ex  |-> IF ex = Nil THEN t + ttl * TicksPerSec ELSE ex,
     res |-> IF Val(cur) + 1 <= limit THEN 1 ELSE 0]

\* A script whose guard admits one call too many (<= instead of <) and
\* replies 1 without comparing the new value with the limit.
SlotAcquireOffByOne(cur, ex, limit, ttl, t) ==
    IF cur = Nil \/ Val(cur) <= limit
    THEN [val |-> Val(cur) + 1,
          ex  |-> IF ex = Nil THEN t + ttl * TicksPerSec ELSE ex,
          res |-> 1]
    ELSE [val |-> cur, ex |-> ex, res |-> 0]

\* A gate that also refuses the client when active_connections, in the
\* metrics hash or in the local counter, has reached the limit.
SlotAcquireByMetrics(cur, ex, limit, ttl, t) ==
    IF (cur = Nil \/ Val(cur) < limit)
       /\ metrics["active_connections"] < limit /\ localActive < limit
    THEN [val |-> Val(cur) + 1,
          ex  |-> IF ex = Nil THEN t + ttl * TicksPerSec ELSE ex,
          res |-> IF Val(cur) + 1 <= limit THEN 1 ELSE 0]
    ELSE [val |-> cur, ex |-> ex, res |-> 0]

\* _SLOT_ACQUIRE_SCRIPT, run atomically by the server: from the key's value
\* `cur` and expiry `ex` (Nil = no TTL) to the new value, expiry and reply.
SlotAcquireScript(cur, ex, limit, ttl, t) ==
    IF cur = Nil \/ Val(cur) < limit
    THEN LET v == Val(cur) + 1
         IN [val |-> v,
             ex  |-> IF ex = Nil THEN t + ttl * TicksPerSec ELSE ex,
             res |-> IF v <= limit THEN 1 ELSE 0]
    ELSE [val |-> cur, ex |-> ex, res |-> 0]

\* A limiter that refuses the client when the store cannot be reached.
AcquireFailClosed == FALSE

\* user_slot_acquire's except branch (line 72): fail-open.
AcquireOnError == TRUE

\* user_slot_release: DECR of the key (a missing key counts from 0 and is
\* created without a TTL).
ReleaseDecr(cur) == Val(cur) - 1

\* user_slot_release: the guard of the correcting SET.
ReleaseNeedsClamp(val) == val < 0

\* ---------------------------------------------------------- Redis metrics
MetricFields == {"active_connections", "total_connections",
                 "dropped_clients", "events_sent"}

\* redis_metrics.hincrby raises only when REDIS_URL was not configured at
\* import; every error of the store itself is swallowed inside it.
HIncrRaises == ~redisUrlSet

\* The effect of redis_metrics.hincrby(field, amount) on the metrics hash.
HIncrBy(m, field, amount) ==
    IF redisUrlSet /\ redisUp THEN [m EXCEPT ![field] = @ + amount] ELSE m

\* -------------------------------------------------------- stream session
\* A finally block that releases a slot whatever `acquired` says.
TeardownAlwaysRelease(acq, sub) == "release"

\* The finally block up to its first await: release the slot only
\* `if acquired and user_sub`, else go straight to the metric decrement.
TeardownPc(acq, sub) == IF acq /\ Truthy(sub) THEN "release" ELSE "dec_active"

\* An exp check that lets every token through.
ExpAlwaysValid(exp, t) == FALSE

\* if exp is None or int(exp - time.time()) <= 0 (line 44)
ExpInvalid(exp, t) == exp = Nil \/ RemainingTtl(exp, t) <= 0

\* A loop that does not look at the recomputed lifetime.
TokenNeverExpired(ttl) == FALSE

\* if token_ttl <= 0 (line 83)
TokenExpired(ttl) == ttl <= 0

\* A wait whose handlers catch every exception, cancellation included.
HandledAll(exc) == TRUE

\* The except clauses around the wait (lines 96-111): asyncio.TimeoutError
\* and Exception are handled there; CancelledError and GeneratorExit derive
\* from BaseException and pass through to the finally block.
HandledInLoop(exc) == exc \in {"TimeoutError", "Exception"}

\* payload_json: json.dumps(item), or the placeholder when it raises.
Serialize(it) == IF it = "ok" THEN "data" ELSE "error"

\* A wait bounded by the latest of the deadlines instead of the earliest.
StreamTimeoutLatest(tttl, ina) ==
    LET cands == (IF tttl # Nil THEN {tttl} ELSE {}) \cup
                 (IF ina # 0 THEN {ina} ELSE {})
    IN IF cands = {} THEN Nil
       ELSE CHOOSE c \in cands : \A d \in cands : c >= d

\* timeout = min(timeout_candidates) if timeout_candidates else None
StreamTimeout(tttl, ina) ==
    LET cands == (IF tttl # Nil THEN {tttl} ELSE {}) \cup
                 (IF ina # 0 THEN {ina} ELSE {})
    IN IF cands = {} THEN Nil
       ELSE CHOOSE c \in cands : \A d \in cands : c <= d

Deadline(s) == waitStart[s] + timeout[s] * TicksPerSec

TimerDue(s) == pc[s] = "wait" /\ timeout[s] # Nil /\ now >= Deadline(s)

KeyDue(k) == slotExp[k] # Nil /\ now >= slotExp[k]

\* ------------------------------------------------------------ broadcaster
\* A channel is the asyncio.Queue of one subscribe() generator; the channel
\* of stream session s is s. An event is known by its publish number.

\* A channel without a capacity: put_nowait never raises QueueFull.
QueueNeverFull(qc) == FALSE

\* queue.full(): qsize() >= maxsize.
QueueFull(qc) == Len(qc) >= QUEUE_MAXSIZE

\* A channel that puts the newest event in front of the older ones.
QueuePutFront(qc, e) == <<e>> \o qc

\* queue.put_nowait(event) on a channel that is not full.
QueuePut(qc, e) == Append(qc, e)

\* A remove that leaves the list as it was.
ListRemoveNothing(l, c) == l

\* list.remove(x): drops the first occurrence; the ValueError for a missing
\* element is swallowed by both callers.
RECURSIVE ListRemove(_, _)
ListRemove(l, c) ==
    IF l = <<>> THEN <<>>
    ELSE IF Head(l) = c THEN Tail(l)
    ELSE <<Head(l)>> \o ListRemove(Tail(l), c)

\* The first loop of _broadcast over the subscriber list: put_nowait on each
\* queue, collecting the queues that raised QueueFull.
RECURSIVE PutAll(_, _, _)
PutAll(subs, q, e) ==
    IF subs = <<>> THEN [queue |-> q, dead |-> <<>>]
    ELSE LET c == Head(subs)
             full == QueueFull(q[c])
             rest == PutAll(Tail(subs),
                            IF full THEN q ELSE [q EXCEPT ![c] = QueuePut(@, e)], e)
         IN [queue |-> rest.queue,
             dead |-> IF full THEN <<c>> \o rest.dead ELSE rest.dead]

\* The second loop of _broadcast: remove every dead queue from the list.
RECURSIVE RemoveAll(_, _)
RemoveAll(l, dead) ==
    IF dead = <<>> THEN l ELSE RemoveAll(ListRemove(l, Head(dead)), Tail(dead))

\* AuditLogger._broadcast(event): the new subscriber list and channels.
Broadcast(subs, q, e) ==
    LET r == PutAll(subs, q, e)
    IN [subs |-> RemoveAll(subs, r.dead), queue |-> r.queue]

\* The set of channels in the subscriber list.
Subscribed == {subscribers[i] : i \in 1..Len(subscribers)}

\* ------------------------------------------------------- AuditLogger.log
\* What decides one log() call: whether json.dumps accepts the payload (the
\* caller's metadata can hold a value JSON cannot encode), whether a webhook
\* is configured and its POST succeeds, and whether the audit table is
\* configured (_database_url and _session_maker) and its insert succeeds.
LogCalls == [serializable : BOOLEAN,
             webhook : {"unset", "ok", "fails"},
             db : {"unset", "ok", "fails"}]

\* No log() call has run yet.
NoLog == [called |-> FALSE,
          in |-> [serializable |-> TRUE, webhook |-> "unset", db |-> "unset"],
          record |-> FALSE, webhook |-> FALSE, db |-> FALSE,
          broadcast |-> FALSE, raised |-> FALSE]

\* AuditLogger.log up to its last line: which sinks the call reached (the log
\* record handed to the logger, the webhook thread started, the insert
\* awaited, _broadcast awaited) and whether it raised. json.dumps(payload) is
\* evaluated first and its TypeError leaves log(); a failing POST is swallowed
\* inside the thread, a failing insert by the except clause.
LogOutcome(in) ==
    IF ~in.serializable
    THEN [called |-> TRUE, in |-> in, record |-> FALSE, webhook |-> FALSE,
          db |-> FALSE, broadcast |-> FALSE, raised |-> TRUE]
    ELSE [called |-> TRUE, in |-> in, record |-> TRUE,
          webhook |-> in.webhook # "unset", db |-> in.db # "unset",
          broadcast |-> TRUE, raised |-> FALSE]

\* -------------------------------------------------- role-guarded endpoints
\* No request has been made yet.
NoRequest == [creds |-> "idle"]

\* jwks_client.domain and jwks_client.audience: set, or "" (AUTH0_DOMAIN and
\* AUTH0_AUDIENCE). When set, the expected issuer is "tenant" (standing for
\* https://<domain>/) and the expected audience is "api".
AuthConfigs == [domain : BOOLEAN, audience : BOOLEAN]

\* The "roles" claim of a payload: absent, a list of role names, or a single
\* role name given as a string.
RoleNames == {"admin", "Admin", "employee"}
RolesClaims == {[form |-> "absent", names |-> {}]} \cup
               [form : {"list"}, names : (SUBSET RoleNames) \ {{}}] \cup
               [form : {"string"}, names : {{n} : n \in RoleNames}]

\* A bearer token as _decode_jwt sees it: whether the header names a kid,
\* whether the RS256 signature verifies under the key of that kid, and the
\* registered claims of the payload.
BearerTokens == [kid : BOOLEAN,
                 sig : {"good", "bad"},
                 exp : {"absent", "future", "past"},
                 iat : BOOLEAN,
                 aud : {"absent", "api", "other"},
                 iss : {"absent", "tenant", "other"},
                 roles : RolesClaims]

\* What jwks_client.get_signing_key(kid) does for the request: returns the
\* key, raises KeyError, or raises another exception. Without a domain
\* jwks_url raises, no fetch ever succeeds and the cache stays empty, so
\* ensure_keys re-raises.
Lookups(cfg) == IF cfg.domain THEN {"key", "KeyError", "error"} ELSE {"error"}

\* A request to a role-guarded endpoint: the configuration it meets, the
\* Authorization header (none, or Bearer <token>) and the key lookup.
AuthRequests ==
    {[creds |-> "none", cfg |-> c] : c \in AuthConfigs} \cup
    {r \in [creds : {"bearer"}, cfg : AuthConfigs, token : BearerTokens,
            lookup : {"key", "KeyError", "error"}] : r.lookup \in Lookups(r.cfg)}

\* str.lower() on a role name or on one character of it.
Lower(n) == CASE n = "Admin" -> "admin"
              [] n = "A" -> "a"
              [] OTHER -> n

\* The characters of a role name, as iterating over a str yields them.
Chars(n) == CASE n = "admin" -> {"a", "d", "m", "i", "n"}
              [] n = "Admin" -> {"A", "d", "m", "i", "n"}
              [] n = "employee" -> {"e", "m", "p", "l", "o", "y"}

\* require_roles("admin", "hr") of POST /onboard and POST /audit.
AcceptedRoles == {"admin", "hr"}

\* options={"require": [...]} of the jwt.decode call.
RequiredClaims(cfg) ==
    IF cfg.domain /\ cfg.audience THEN {"exp", "iat", "aud", "iss"} ELSE {"exp", "iat"}

\* The registered claims the payload carries.
PresentClaims(t) ==
    {c \in {"exp", "iat", "aud", "iss"} :
        \/ c = "exp" /\ t.exp # "absent"
        \/ c = "iat" /\ t.iat
        \/ c = "aud" /\ t.aud # "absent"
        \/ c = "iss" /\ t.iss # "absent"}

\* jwt.decode(token, key, algorithms=["RS256"], audience=..., issuer=...,
\* options=...): TRUE when it returns the payload. It verifies the
\* signature, the presence of the required claims and the expiry; with an
\* issuer passed, iss must be present and equal to it; with an audience
\* passed, aud must be present and equal to it, and with none passed a
\* payload that carries aud is refused.
JwtDecodes(cfg, t) ==
    /\ t.sig = "good"
    /\ RequiredClaims(cfg) \subseteq PresentClaims(t)
    /\ t.exp # "past"
    /\ cfg.domain => t.iss = "tenant"
    /\ IF cfg.audience THEN t.aud = "api" ELSE t.aud = "absent"

\* _decode_jwt(token): "200" stands for the payload being returned.
DecodeJwt(cfg, t, lookup) ==
    IF ~t.kid THEN "401"
    ELSE IF lookup = "KeyError" THEN "401"
    ELSE IF lookup = "error" THEN "503"
    ELSE IF JwtDecodes(cfg, t) THEN "200" ELSE "401"

\* get_current_user(credentials)
GetCurrentUser(r) ==
    IF r.creds = "none" THEN "401" ELSE DecodeJwt(r.cfg, r.token, r.lookup)

\* set([r.lower() for r in (user.get("roles") or [])])
UserRoles(roles) ==
    CASE roles.form = "list" -> {Lower(n) : n \in roles.names}
      [] roles.form = "string" ->
            UNION {{Lower(c) : c \in Chars(n)} : n \in roles.names}
      [] OTHER -> {}

\* The dependency require_roles(*accepted_roles) builds, on top of
\* get_current_user.
RequireRoles(r) ==
    IF GetCurrentUser(r) # "200" THEN GetCurrentUser(r)
    ELSE IF UserRoles(r.token.roles) \cap {Lower(a) : a \in AcceptedRoles} = {}
    THEN "403"
    ELSE "200"

\* JWKSClient.__init__, and no verification request under way. The clock of
\* the key cache starts JWKS_CACHE_TTL ticks after the epoch: time.time() is
\* far beyond the TTL, so a _last_refresh of 0 is always stale.
JwksInit ==
    /\ jnow = JWKS_CACHE_TTL
    /\ jwks = "None"
    /\ keys_by_kid = {}
    /\ last_refresh = 0
    /\ lockHolder = 0
    /\ lockQ = <<>>
    /\ rpc = [r \in Requests |-> "idle"]
    /\ kid = [r \in Requests |-> ""]
    /\ res = [r \in Requests |-> "none"]
    /\ lastFetch = "none"
    /\ jwks_kids = {}
    /\ request = NoRequest
    /\ response = "none"

\* The rate limiters before any request (no counter key in the store, no
\* timestamp list) and the local metrics module after import.
LimCalls == 1..NumRequests
\* The request handlers that call AuditLogger.log.
Producers == 1..NumRequests
StreamUsers == {"alice", "bob"}

LimInit ==
    /\ rl_now = 0
    /\ rl_up = TRUE
    /\ rl_count = Nil
    /\ rl_exp = Nil
    /\ rl_pc = [c \in LimCalls |-> "idle"]
    /\ rl_val = [c \in LimCalls |-> Nil]
    /\ rl_res = [c \in LimCalls |-> "none"]
    /\ rl_err = [c \in LimCalls |-> FALSE]
    /\ rl_via = [c \in LimCalls |-> "none"]
    /\ rl_calls = 0
    /\ local_rate_limits = <<>>
    /\ local_hist = <<>>
    /\ local_metrics = [active_connections |-> 0, total_connections |-> 0,
                        per_user_streams |-> [u \in StreamUsers |-> 0]]

\* AuditLogger.__init__: no subscriber; no subscribe() generator has run.
BcastInit ==
    /\ subscribers = <<>>
    /\ gen = [c \in Sessions |-> "none"]
    /\ queue = [c \in Sessions |-> <<>>]
    /\ published = 0
    /\ lastGot = [c \in Sessions |-> 0]
    /\ logged = NoLog
    /\ LimInit
    /\ prod_pc = [p \in Producers |-> "idle"]
    /\ prod_ev = [p \in Producers |-> 0]
    /\ log_calls = 0
    /\ got = [c \in Sessions |-> <<>>]

\* The state after import, before any client has connected. `clients` is the
\* number of clients that will open a stream in the run.
InitWith(n) ==
    /\ now = 0
    /\ clients = n
    /\ redisUrlSet \in BOOLEAN
    /\ redisUp = TRUE
    /\ max_slots = 1
    /\ inactivity_ttl \in InactivityTtls
    /\ slots = [k \in SlotKeys |-> Nil]
    /\ slotExp = [k \in SlotKeys |-> Nil]
    /\ metrics = [f \in MetricFields |-> 0]
    /\ localActive = 0
    /\ pc = [s \in Sessions |-> "idle"]
    /\ tok = [s \in Sessions |-> NoToken]
    /\ user_sub = [s \in Sessions |-> NoSub]
    /\ acquired = [s \in Sessions |-> FALSE]
    /\ failed_open = [s \in Sessions |-> FALSE]
    /\ token_ttl = [s \in Sessions |-> Nil]
    /\ timeout = [s \in Sessions |-> Nil]
    /\ waitStart = [s \in Sessions |-> 0]
    /\ nEvents = [s \in Sessions |-> 0]
    /\ released = [s \in Sessions |-> 0]
    /\ exitWhy = [s \in Sessions |-> "none"]
    /\ item = [s \in Sessions |-> "none"]
    /\ frame = [s \in Sessions |-> "none"]
    /\ JwksInit
    /\ BcastInit

\* A client opens a stream: event_generator(audit_logger, token) runs to its
\* first await; inactivity_ttl is DEFAULT_INACTIVITY_TTL (SSE_INACTIVITY_TTL).
Start(s) ==
    /\ pc[s] = "idle"
    /\ s <= clients
    /\ IF s = 1 THEN TRUE ELSE pc[s - 1] # "idle"
    /\ \E t \in Tokens :
          /\ tok' = [tok EXCEPT ![s] = t]
          /\ pc' = [pc EXCEPT ![s] = IF t = NoToken THEN "count" ELSE "decode"]
    /\ UNCHANGED <<bqVars, subVars, jwksVars, auxVars, now, cfgVars, redisUp, slots, slotExp, metrics, localActive,
                   user_sub, acquired, failed_open, token_ttl, timeout, waitStart, nEvents,
                   released, exitWhy, item, frame>>

\* Control leaves the try body for the finally block: the loop's locals are
\* dead from here on and are reset to their initial values.
EnterFinally(s, acq, sub, why) ==
    /\ pc' = [pc EXCEPT ![s] = TeardownPc(acq, sub)]
    /\ exitWhy' = [exitWhy EXCEPT ![s] = why]
    /\ token_ttl' = [token_ttl EXCEPT ![s] = Nil]
    /\ timeout' = [timeout EXCEPT ![s] = Nil]
    /\ waitStart' = [waitStart EXCEPT ![s] = 0]
    /\ nEvents' = [nEvents EXCEPT ![s] = 0]
    /\ item' = [item EXCEPT ![s] = "none"]
    /\ frame' = [frame EXCEPT ![s] = "none"]

\* payload = await _decode_jwt(token); the exp check; token_ttl.
Decode(s) ==
    /\ pc[s] = "decode"
    /\ IF tok[s].kind = "bad"
       THEN /\ EnterFinally(s, acquired[s], user_sub[s], "401")
            /\ UNCHANGED user_sub
       ELSE /\ user_sub' = [user_sub EXCEPT ![s] = tok[s].sub]
            /\ IF ExpInvalid(tok[s].exp, now)
               THEN EnterFinally(s, acquired[s], tok[s].sub, "401")
               ELSE /\ token_ttl' = [token_ttl EXCEPT ![s] = RemainingTtl(tok[s].exp, now)]
                    /\ pc' = [pc EXCEPT ![s] = "acquire"]
                    /\ UNCHANGED <<exitWhy, timeout, waitStart, nEvents, item, frame>>
    /\ UNCHANGED <<bqVars, subVars, jwksVars, auxVars, now, cfgVars, redisUp, slots, slotExp,
                   metrics, localActive, tok, acquired, failed_open, released>>

\* acquired = await user_slot_acquire(f"streams:{user_sub}", ...); 429 if denied.
Admit(s) ==
    /\ pc[s] = "acquire"
    /\ LET k == SlotKey(user_sub[s])
           r == IF Reachable
                THEN SlotAcquireScript(slots[k], slotExp[k], max_slots,
                                       STREAM_SLOT_TTL, now)
                ELSE [val |-> slots[k], ex |-> slotExp[k],
                      res |-> IF AcquireOnError THEN 1 ELSE 0]
       IN /\ slots' = [slots EXCEPT ![k] = r.val]
          /\ slotExp' = [slotExp EXCEPT ![k] = r.ex]
          /\ acquired' = [acquired EXCEPT ![s] = (r.res = 1)]
          /\ failed_open' = [failed_open EXCEPT ![s] = ~Reachable]
          /\ IF r.res = 1
             THEN /\ pc' = [pc EXCEPT ![s] = "count"]
                  /\ UNCHANGED <<exitWhy, token_ttl, timeout, waitStart, nEvents,
                                 item, frame>>
             ELSE EnterFinally(s, FALSE, user_sub[s], "429")
    /\ UNCHANGED <<bqVars, subVars, jwksVars, auxVars, now, cfgVars, redisUp, metrics, localActive,
                   tok, user_sub, released>>

\* await hincrby("active_connections", 1); await hincrby("total_connections", 1):
\* when hincrby raises, the token path ignores it (lines 57-59) and the
\* anonymous path falls back to the local counter (lines 72-74); the second
\* call is skipped either way. gen = audit_logger.subscribe() only creates
\* the generator object: nothing of its body has run yet.
CountStart(s) ==
    /\ pc[s] = "count"
    /\ IF HIncrRaises
       THEN /\ localActive' = IF tok[s] = NoToken THEN localActive + 1 ELSE localActive
            /\ UNCHANGED metrics
       ELSE /\ metrics' = HIncrBy(HIncrBy(metrics, "active_connections", 1),
                                  "total_connections", 1)
            /\ UNCHANGED localActive
    /\ pc' = [pc EXCEPT ![s] = "loop"]
    /\ UNCHANGED <<bqVars, subVars, jwksVars, auxVars, now, cfgVars, redisUp, slots, slotExp,
                   sessVars>>

\* Top of the emit loop: recompute token_ttl, raise 401 if it is used up,
\* compute the timeout and start waiting for gen.__anext__(), whose first
\* call runs subscribe() up to queue.get() and so registers the channel.
LoopTop(s) ==
    /\ pc[s] = "loop"
    /\ IF token_ttl[s] # Nil /\ TokenExpired(RemainingTtl(tok[s].exp, now))
       THEN /\ EnterFinally(s, acquired[s], user_sub[s], "expired")
            /\ UNCHANGED subVars
       ELSE LET ttl == IF token_ttl[s] # Nil THEN RemainingTtl(tok[s].exp, now) ELSE Nil
            IN /\ token_ttl' = [token_ttl EXCEPT ![s] = ttl]
               /\ timeout' = [timeout EXCEPT ![s] = StreamTimeout(ttl, inactivity_ttl)]
               /\ waitStart' = [waitStart EXCEPT ![s] = now]
               /\ pc' = [pc EXCEPT ![s] = "wait"]
               /\ subscribers' = IF gen[s] = "none" THEN Append(subscribers, s)
                                 ELSE subscribers
               /\ gen' = [gen EXCEPT ![s] = "waiting"]
               /\ UNCHANGED <<exitWhy, nEvents, item, frame>>
    /\ UNCHANGED <<bqVars, jwksVars, auxVars, now, cfgVars, redisUp, slots, slotExp, metrics,
                   localActive, tok, user_sub, acquired, failed_open, released>>

\* gen.__anext__() returns an item before the deadline; the item is one that
\* json.dumps accepts or one it does not. (In the stream specifications the
\* publisher is left out: that a channel holds an item is this action's
\* nondeterminism.)
GetEvent(s) ==
    /\ pc[s] = "wait"
    /\ nEvents[s] < MaxEvents
    /\ timeout[s] = Nil \/ now < Deadline(s)
    /\ nEvents' = [nEvents EXCEPT ![s] = @ + 1]
    /\ \E it \in {"ok", "bad"} : item' = [item EXCEPT ![s] = it]
    /\ gen' = [gen EXCEPT ![s] = "yielded"]
    /\ pc' = [pc EXCEPT ![s] = "emit"]
    /\ UNCHANGED <<bqVars, subscribers, jwksVars, auxVars, now, cfgVars, redisUp, slots, slotExp,
                   metrics, localActive, tok, user_sub, acquired, failed_open, token_ttl, timeout,
                   waitStart, released, exitWhy, frame>>

\* An exception leaves the subscribe() generator at queue.get(): its finally
\* block removes the channel from the subscriber list.
CloseGen(s) ==
    /\ subscribers' = ListRemove(subscribers, s)
    /\ gen' = [gen EXCEPT ![s] = "closed"]

\* The except branches of the wait: await hincrby("dropped_clients", 1) with
\* errors ignored, then break into the finally block.
DropClient(s, why) ==
    /\ metrics' = IF HIncrRaises THEN metrics
                  ELSE HIncrBy(metrics, "dropped_clients", 1)
    /\ EnterFinally(s, acquired[s], user_sub[s], why)
    /\ CloseGen(s)
    /\ UNCHANGED <<bqVars, jwksVars, auxVars, now, cfgVars, redisUp, slots, slotExp, localActive,
                   tok, user_sub, acquired, failed_open, released>>

\* The wait ends with exception `exc`: handled by one of the except clauses,
\* or passed on to the finally block.
WaitRaises(s, exc, why) ==
    IF HandledInLoop(exc)
    THEN DropClient(s, why)
    ELSE /\ EnterFinally(s, acquired[s], user_sub[s], why)
         /\ CloseGen(s)
         /\ UNCHANGED <<bqVars, jwksVars, auxVars, now, cfgVars, redisUp, slots, slotExp, metrics,
                        localActive, tok, user_sub, acquired, failed_open, released>>

\* asyncio.wait_for raises TimeoutError once the timeout has elapsed (it has
\* cancelled gen.__anext__() by then).
Timeout(s) ==
    /\ TimerDue(s)
    /\ WaitRaises(s, "TimeoutError", "timeout")

\* gen.__anext__() raises some other Exception (lines 106-111).
UpstreamError(s) ==
    /\ pc[s] = "wait"
    /\ WaitRaises(s, "Exception", "error")

\* The client disconnects: CancelledError in the wait, or GeneratorExit at
\* the yield, where the subscribe() generator stays suspended at its own
\* yield (event_generator never closes it).
Cancel(s) ==
    \/ /\ pc[s] = "wait"
       /\ WaitRaises(s, "CancelledError", "cancel")
    \/ /\ pc[s] = "yield"
       /\ EnterFinally(s, acquired[s], user_sub[s], "cancel")
       /\ UNCHANGED <<bqVars, subVars, jwksVars, auxVars, now, cfgVars, redisUp, slots, slotExp,
                      metrics, localActive, tok, user_sub, acquired, failed_open, released>>

\* json.dumps (or the placeholder), await hincrby("events_sent", 1), yield.
Emit(s) ==
    /\ pc[s] = "emit"
    /\ metrics' = IF HIncrRaises THEN metrics
                  ELSE HIncrBy(metrics, "events_sent", 1)
    /\ frame' = [frame EXCEPT ![s] = Serialize(item[s])]
    /\ item' = [item EXCEPT ![s] = "none"]
    /\ pc' = [pc EXCEPT ![s] = "yield"]
    /\ UNCHANGED <<bqVars, subVars, jwksVars, auxVars, now, cfgVars, redisUp, slots, slotExp,
                   localActive, tok, user_sub, acquired, failed_open, token_ttl, timeout, waitStart,
                   nEvents, released, exitWhy>>

\* The client takes the frame and asks for the next one.
ClientNext(s) ==
    /\ pc[s] = "yield"
    /\ pc' = [pc EXCEPT ![s] = "loop"]
    /\ frame' = [frame EXCEPT ![s] = "none"]
    /\ UNCHANGED <<bqVars, subVars, jwksVars, auxVars, now, cfgVars, redisUp, slots, slotExp,
                   metrics, localActive, tok, user_sub, acquired, failed_open, token_ttl, timeout,
                   waitStart, nEvents, released, exitWhy, item>>

\* The finished session's subscribe() generator, left suspended at its
\* yield, is finalized by the event loop's asynchronous-generator hook once
\* the garbage collector finds it: aclose() runs its finally block.
FinalizeGen(s) ==
    /\ pc[s] = "done"
    /\ gen[s] = "yielded"
    /\ CloseGen(s)
    /\ UNCHANGED <<bqVars, jwksVars, auxVars, now, cfgVars, redisUp, slots, slotExp, metrics,
                   localActive, pc, sessVars>>

\* user_slot_release, first command: val = await r.decr(user_key).
Release(s) ==
    /\ pc[s] = "release"
    /\ released' = [released EXCEPT ![s] = @ + 1]
    /\ LET k == SlotKey(user_sub[s]) IN
       IF Reachable
       THEN /\ slots' = [slots EXCEPT ![k] = ReleaseDecr(slots[k])]
            /\ pc' = [pc EXCEPT ![s] = IF ReleaseNeedsClamp(ReleaseDecr(slots[k]))
                                       THEN "clamp" ELSE "dec_active"]
       ELSE /\ pc' = [pc EXCEPT ![s] = "dec_active"]
            /\ UNCHANGED slots
    /\ UNCHANGED <<bqVars, subVars, jwksVars, auxVars, now, cfgVars, redisUp, slotExp, metrics, localActive,
                   tok, user_sub, acquired, failed_open, token_ttl, timeout, waitStart,
                   nEvents, exitWhy, item, frame>>

\* user_slot_release, second command: await r.set(user_key, 0), which also
\* drops the key's TTL.
Clamp(s) ==
    /\ pc[s] = "clamp"
    /\ LET k == SlotKey(user_sub[s]) IN
       IF Reachable
       THEN /\ slots' = [slots EXCEPT ![k] = 0]
            /\ slotExp' = [slotExp EXCEPT ![k] = Nil]
       ELSE UNCHANGED <<slots, slotExp>>
    /\ pc' = [pc EXCEPT ![s] = "dec_active"]
    /\ UNCHANGED <<bqVars, subVars, jwksVars, auxVars, now, cfgVars, redisUp, metrics, localActive, sessVars>>

\* await hincrby("active_connections", -1), with the local clamped fallback.
DecActive(s) ==
    /\ pc[s] = "dec_active"
    /\ IF HIncrRaises
       THEN /\ localActive' = IF localActive > 0 THEN localActive - 1 ELSE localActive
            /\ UNCHANGED metrics
       ELSE /\ metrics' = HIncrBy(metrics, "active_connections", -1)
            /\ UNCHANGED localActive
    /\ pc' = [pc EXCEPT ![s] = "done"]
    /\ UNCHANGED <<bqVars, subVars, jwksVars, auxVars, now, cfgVars, redisUp, slots, slotExp, sessVars>>

\* A session between two awaits on the store is in the middle of a round trip
\* that takes less than one tick of the clock.
Suspended(s) == pc[s] \in {"idle", "wait", "yield", "done"}

\* The server drops a key whose TTL has run out.
ExpireKey(k) ==
    /\ KeyDue(k)
    /\ slots' = [slots EXCEPT ![k] = Nil]
    /\ slotExp' = [slotExp EXCEPT ![k] = Nil]
    /\ UNCHANGED <<bqVars, subVars, jwksVars, auxVars, now, cfgVars, redisUp, metrics, localActive, pc, sessVars>>

\* Time passes while the sessions are suspended, unless a wait_for timer or a
\* key expiry is due now.
Tick ==
    /\ now < MaxTime
    /\ \A s \in Sessions : Suspended(s)
    /\ \A s \in Sessions : ~TimerDue(s)
    /\ \A k \in SlotKeys : ~KeyDue(k)
    /\ now' = now + 1
    /\ UNCHANGED <<bqVars, subVars, jwksVars, auxVars, cfgVars, redisUp, slots, slotExp, metrics, localActive,
                   pc, sessVars>>

\* The store becomes unreachable / reachable again.
RedisDown ==
    /\ redisUrlSet /\ redisUp
    /\ redisUp' = FALSE
    /\ UNCHANGED <<bqVars, subVars, jwksVars, auxVars, now, cfgVars, slots, slotExp, metrics, localActive, pc, sessVars>>

RedisRecover ==
    /\ redisUrlSet /\ ~redisUp
    /\ redisUp' = TRUE
    /\ UNCHANGED <<bqVars, subVars, jwksVars, auxVars, now, cfgVars, slots, slotExp, metrics, localActive, pc, sessVars>>

SessionStep(s) ==
    \/ Start(s) \/ Decode(s) \/ Admit(s) \/ CountStart(s)
    \/ LoopTop(s) \/ GetEvent(s) \/ Timeout(s) \/ UpstreamError(s) \/ Cancel(s)
    \/ Emit(s) \/ ClientNext(s)
    \/ Release(s) \/ Clamp(s) \/ DecActive(s) \/ FinalizeGen(s)

NextUp ==
    \/ \E s \in Sessions : SessionStep(s)
    \/ \E k \in SlotKeys : ExpireKey(k)
    \/ Tick

Next ==
    \/ NextUp
    \/ RedisDown
    \/ RedisRecover

\* One client; the store may be unconfigured, and may fail and recover.
Init == InitWith(1)

Spec == Init /\ [][Next]_vars

\* NumSessions clients, REDIS_URL set and the store reachable throughout.
InitUp == InitWith(NumSessions) /\ redisUrlSet

SpecUp == InitUp /\ [][NextUp]_vars

\* Concurrent user_slot_acquire calls only: every client sits at its acquire
\* call, against a reachable store whose counters hold any value an earlier
\* run can have left (a key above zero always carries a TTL).
InitAcq ==
    /\ now = 0
    /\ clients = NumSessions
    /\ redisUrlSet = TRUE
    /\ redisUp = TRUE
    /\ max_slots \in 1..NumSessions
    /\ inactivity_ttl = 0
    /\ slots \in [SlotKeys -> {Nil} \cup (0..max_slots)]
    /\ slotExp \in [SlotKeys -> {Nil, STREAM_SLOT_TTL * TicksPerSec}]
    /\ \A k \in SlotKeys : /\ slots[k] = Nil => slotExp[k] = Nil
                           /\ (slots[k] # Nil /\ slots[k] > 0) => slotExp[k] # Nil
    /\ metrics = [f \in MetricFields |-> 0]
    /\ localActive = 0
    /\ pc = [s \in Sessions |-> "acquire"]
    /\ tok \in [Sessions -> {t \in GoodTokens : t.exp = MaxExpSec}]
    /\ user_sub = [s \in Sessions |-> tok[s].sub]
    /\ acquired = [s \in Sessions |-> FALSE]
    /\ failed_open = [s \in Sessions |-> FALSE]
    /\ token_ttl = [s \in Sessions |-> RemainingTtl(tok[s].exp, 0)]
    /\ timeout = [s \in Sessions |-> Nil]
    /\ waitStart = [s \in Sessions |-> 0]
    /\ nEvents = [s \in Sessions |-> 0]
    /\ released = [s \in Sessions |-> 0]
    /\ exitWhy = [s \in Sessions |-> "none"]
    /\ item = [s \in Sessions |-> "none"]
    /\ frame = [s \in Sessions |-> "none"]
    /\ JwksInit
    /\ BcastInit

NextAcq == \E s \in Sessions : Admit(s)

SpecAcq == InitAcq /\ [][NextAcq]_vars

\* The same clients at the same call, the metrics hash and the local
\* connection counter holding any values earlier sessions can have left.
InitGate ==
    /\ now = 0
    /\ clients = NumSessions
    /\ redisUrlSet = TRUE
    /\ redisUp = TRUE
    /\ max_slots \in 1..NumSessions
    /\ inactivity_ttl = 0
    /\ slots \in [SlotKeys -> {Nil} \cup (0..max_slots)]
    /\ slotExp \in [SlotKeys -> {Nil, STREAM_SLOT_TTL * TicksPerSec}]
    /\ \A k \in SlotKeys : /\ slots[k] = Nil => slotExp[k] = Nil
                           /\ (slots[k] # Nil /\ slots[k] > 0) => slotExp[k] # Nil
    /\ metrics \in [MetricFields -> 0..MaxMetric]
    /\ localActive \in 0..MaxMetric
    /\ pc = [s \in Sessions |-> "acquire"]
    /\ tok \in [Sessions -> {t \in GoodTokens : t.exp = MaxExpSec}]
    /\ user_sub = [s \in Sessions |-> tok[s].sub]
    /\ acquired = [s \in Sessions |-> FALSE]
    /\ failed_open = [s \in Sessions |-> FALSE]
    /\ token_ttl = [s \in Sessions |-> RemainingTtl(tok[s].exp, 0)]
    /\ timeout = [s \in Sessions |-> Nil]
    /\ waitStart = [s \in Sessions |-> 0]
    /\ nEvents = [s \in Sessions |-> 0]
    /\ released = [s \in Sessions |-> 0]
    /\ exitWhy = [s \in Sessions |-> "none"]
    /\ item = [s \in Sessions |-> "none"]
    /\ frame = [s \in Sessions |-> "none"]
    /\ JwksInit
    /\ BcastInit

SpecGate == InitGate /\ [][NextAcq]_vars

\* One client arrives while earlier clients hold every slot of every subject:
\* the counters stand at max_slots with their TTL running; the store is
\* reachable throughout.
InitDeny ==
    /\ now = 0
    /\ clients = 1
    /\ redisUrlSet = TRUE
    /\ redisUp = TRUE
    /\ max_slots = 1
    /\ inactivity_ttl \in InactivityTtls
    /\ slots = [k \in SlotKeys |-> max_slots]
    /\ slotExp = [k \in SlotKeys |-> STREAM_SLOT_TTL * TicksPerSec]
    /\ metrics = [f \in MetricFields |-> 0]
    /\ localActive = 0
    /\ pc = [s \in Sessions |-> "idle"]
    /\ tok = [s \in Sessions |-> NoToken]
    /\ user_sub = [s \in Sessions |-> NoSub]
    /\ acquired = [s \in Sessions |-> FALSE]
    /\ failed_open = [s \in Sessions |-> FALSE]
    /\ token_ttl = [s \in Sessions |-> Nil]
    /\ timeout = [s \in Sessions |-> Nil]
    /\ waitStart = [s \in Sessions |-> 0]
    /\ nEvents = [s \in Sessions |-> 0]
    /\ released = [s \in Sessions |-> 0]
    /\ exitWhy = [s \in Sessions |-> "none"]
    /\ item = [s \in Sessions |-> "none"]
    /\ frame = [s \in Sessions |-> "none"]
    /\ JwksInit
    /\ BcastInit

SpecDeny == InitDeny /\ [][NextUp]_vars

\* ----------------------------------------------- JWKS key cache: requests
\* The request's coroutine runs from its current await to the next one; `t`
\* is the record GetKeyTail computed for it.
Continue(r, t) ==
    /\ rpc' = [rpc EXCEPT ![r] = t.pc]
    /\ res' = [res EXCEPT ![r] = t.res]
    /\ lockHolder' = t.holder
    /\ lockQ' = t.q
    /\ last_refresh' = t.lr

\* _decode_jwt calls get_signing_key(k): ensure_keys returns at once on a
\* fresh cache; otherwise the request takes the lock (and, the double check
\* giving the same answer in the same instant, starts the fetch) or queues
\* for it.
JStart(r, k) ==
    /\ rpc[r] = "idle"
    /\ IF r = 1 THEN TRUE ELSE rpc[r - 1] # "idle"
    /\ kid' = [kid EXCEPT ![r] = k]
    /\ IF IsFresh(jwks, last_refresh, jnow)
       THEN Continue(r, GetKeyTail(r, k, keys_by_kid, lockHolder, lockQ, last_refresh))
       ELSE /\ IF lockHolder = 0
               THEN /\ lockHolder' = r
                    /\ rpc' = [rpc EXCEPT ![r] = "ek_fetch"]
                    /\ UNCHANGED lockQ
               ELSE /\ lockQ' = Append(lockQ, r)
                    /\ rpc' = [rpc EXCEPT ![r] = "ek_lock"]
                    /\ UNCHANGED lockHolder
            /\ UNCHANGED <<res, last_refresh>>
    /\ UNCHANGED <<streamVars, jnow, jwks, keys_by_kid, lastFetch, jwks_kids>>

\* A request that queued at line 70 is given the lock: the double check, then
\* the fetch, or the release and the lookup.
JWake(r) ==
    /\ rpc[r] = "ek_lock"
    /\ lockHolder = r
    /\ IF IsFresh(jwks, last_refresh, jnow)
       THEN LET l == ReleaseLock(lockQ)
            IN Continue(r, GetKeyTail(r, kid[r], keys_by_kid, l.holder, l.q, last_refresh))
       ELSE /\ rpc' = [rpc EXCEPT ![r] = "ek_fetch"]
            /\ UNCHANGED <<res, lockHolder, lockQ, last_refresh>>
    /\ UNCHANGED <<streamVars, jnow, jwks, keys_by_kid, kid, lastFetch, jwks_kids>>

\* A request that queued at line 91 is given the lock: it zeroes
\* _last_refresh and calls ensure_keys, which finds the cache stale and waits
\* at line 70 for the lock its own caller holds (asyncio.Lock is not
\* re-entrant).
JWakeForced(r) ==
    /\ rpc[r] = "gs_lock"
    /\ lockHolder = r
    /\ last_refresh' = 0
    /\ lockQ' = Append(lockQ, r)
    /\ rpc' = [rpc EXCEPT ![r] = "forced_refresh"]
    /\ UNCHANGED <<streamVars, jnow, jwks, keys_by_kid, lockHolder, kid, res, lastFetch,
                   jwks_kids>>

\* The end of ensure_keys for the request that fetched: `raised` tells whether
\* the except clause re-raised; the lock is released either way.
AfterFetch(r, raised, keys, lr) ==
    LET l == ReleaseLock(lockQ)
    IN IF raised
       THEN Continue(r, [pc |-> "done", res |-> "503", holder |-> l.holder,
                         q |-> l.q, lr |-> lr])
       ELSE Continue(r, GetKeyTail(r, kid[r], keys, l.holder, l.q, lr))

\* _fetch_jwks returns body b: lines 77-79, and the except clause when line
\* 78 raises on it (self._jwks is b by then).
JFetchReturn(r, b) ==
    /\ rpc[r] = "ek_fetch"
    /\ jwks' = b.kind
    /\ jwks_kids' = b.kids
    /\ IF Parses(b)
       THEN /\ keys_by_kid' = KeysByKid(b)
            /\ lastFetch' = "ok"
            /\ AfterFetch(r, FALSE, KeysByKid(b), jnow)
       ELSE /\ keys_by_kid' = keys_by_kid
            /\ lastFetch' = "fail"
            /\ AfterFetch(r, FetchErrorRaised(b.kind), keys_by_kid, last_refresh)
    /\ UNCHANGED <<streamVars, jnow, kid>>

\* _fetch_jwks raises (network error, HTTP error status, invalid JSON,
\* AUTH0_DOMAIN not configured).
JFetchRaise(r) ==
    /\ rpc[r] = "ek_fetch"
    /\ lastFetch' = "fail"
    /\ AfterFetch(r, FetchErrorRaised(jwks), keys_by_kid, last_refresh)
    /\ UNCHANGED <<streamVars, jnow, jwks, keys_by_kid, kid, jwks_kids>>

\* The response is sent; the next request of this client can come.
JFinish(r) ==
    /\ rpc[r] = "done"
    /\ rpc' = [rpc EXCEPT ![r] = "idle"]
    /\ res' = [res EXCEPT ![r] = "none"]
    /\ kid' = [kid EXCEPT ![r] = ""]
    /\ UNCHANGED <<streamVars, jnow, jwks, keys_by_kid, last_refresh, lockHolder, lockQ,
                   lastFetch, jwks_kids>>

\* A request the event loop can run now: it has been given the lock.
Runnable(r) == rpc[r] \in {"ek_lock", "gs_lock"} /\ lockHolder = r

\* time.time() advances; a request that can run is run before the TTL-scale
\* clock moves.
JTick ==
    /\ jnow < JWKS_CACHE_TTL + MaxJwksTicks
    /\ \A r \in Requests : ~Runnable(r)
    /\ jnow' = jnow + 1
    /\ UNCHANGED <<streamVars, jwks, keys_by_kid, last_refresh, lockHolder, lockQ, rpc,
                   kid, res, lastFetch, jwks_kids>>

NextJwks ==
    \/ \E r \in Requests : \/ \E k \in Kids : JStart(r, k)
                           \/ JWake(r)
                           \/ JWakeForced(r)
                           \/ \E b \in Bodies : JFetchReturn(r, b)
                           \/ JFetchRaise(r)
                           \/ JFinish(r)
    \/ JTick

\* The key cache alone: no stream client connects.
InitJwks == InitWith(0) /\ redisUrlSet /\ inactivity_ttl = 0

SpecJwks == InitJwks /\ [][NextJwks]_vars

\* ------------------------------------------------ role-guarded endpoints
\* A request to POST /onboard passes through its dependencies.
Guard(r) ==
    /\ request' = r
    /\ response' = RequireRoles(r)
    /\ UNCHANGED <<logged, limVars, prodVars, got, jwksVars, now, cfgVars, redisUp, slots, slotExp, metrics,
                   localActive, pc, sessVars, bqVars, subVars>>

\* The answer depends on nothing an earlier request has left, so a behaviour
\* follows one request.
NextAuth == request = NoRequest /\ \E r \in AuthRequests : Guard(r)

SpecAuth == InitJwks /\ [][NextAuth]_vars

\* ------------------------------------------------- broadcaster: actions
\* First __anext__() of a subscribe() generator: the queue is created and
\* appended to the subscriber list, and the generator waits in queue.get().
BSubscribe(c) ==
    /\ gen[c] = "none"
    /\ IF c = 1 THEN TRUE ELSE gen[c - 1] # "none"
    /\ subscribers' = Append(subscribers, c)
    /\ gen' = [gen EXCEPT ![c] = "waiting"]
    /\ UNCHANGED <<bqVars, jwksVars, auxVars, now, cfgVars, redisUp, slots, slotExp, metrics,
                   localActive, pc, sessVars>>

\* AuditLogger.log -> _broadcast: the next event is published.
BPublish ==
    /\ published < MaxPublished
    /\ LET r == Broadcast(subscribers, queue, published + 1)
       IN /\ subscribers' = r.subs
          /\ queue' = r.queue
    /\ published' = published + 1
    /\ UNCHANGED <<gen, lastGot, jwksVars, auxVars, now, cfgVars, redisUp, slots, slotExp, metrics,
                   localActive, pc, sessVars>>

\* event = await queue.get(); yield event.
BTake(c) ==
    /\ gen[c] = "waiting"
    /\ queue[c] # <<>>
    /\ lastGot' = [lastGot EXCEPT ![c] = Head(queue[c])]
    /\ queue' = [queue EXCEPT ![c] = Tail(@)]
    /\ gen' = [gen EXCEPT ![c] = "yielded"]
    /\ UNCHANGED <<subscribers, published, jwksVars, auxVarsButGot, now, cfgVars, redisUp,
                   slots, slotExp, metrics, localActive, pc, sessVars>>

BGet(c) == BTake(c) /\ UNCHANGED got

\* The same step, the event also written to the subscriber's record.
BGot(c) ==
    /\ BTake(c)
    /\ got' = [got EXCEPT ![c] = Append(@, Head(queue[c]))]

\* The consumer asks for the next event: the generator is back in queue.get().
BNext(c) ==
    /\ gen[c] = "yielded"
    /\ gen' = [gen EXCEPT ![c] = "waiting"]
    /\ UNCHANGED <<subscribers, bqVars, jwksVars, auxVars, now, cfgVars, redisUp, slots, slotExp,
                   metrics, localActive, pc, sessVars>>

\* The generator is closed (cancelled in queue.get(), or aclose() at the
\* yield): its finally block removes the queue from the subscriber list.
BClose(c) ==
    /\ gen[c] \in {"waiting", "yielded"}
    /\ subscribers' = ListRemove(subscribers, c)
    /\ gen' = [gen EXCEPT ![c] = "closed"]
    /\ UNCHANGED <<bqVars, jwksVars, auxVars, now, cfgVars, redisUp, slots, slotExp, metrics,
                   localActive, pc, sessVars>>

\* AuditLogger.log(action, actor, target, metadata): the sinks in the order of
\* the code, the event being published when the call reaches _broadcast.
BLog(in) ==
    /\ published < MaxPublished
    /\ logged' = LogOutcome(in)
    /\ IF LogOutcome(in).broadcast
       THEN LET r == Broadcast(subscribers, queue, published + 1)
            IN /\ subscribers' = r.subs
               /\ queue' = r.queue
               /\ published' = published + 1
       ELSE UNCHANGED <<subscribers, queue, published>>
    /\ UNCHANGED <<gen, lastGot, request, response, limVars, prodVars, got, jwksVars, now, cfgVars, redisUp,
                   slots, slotExp, metrics, localActive, pc, sessVars>>

NextBcast ==
    \/ BPublish
    \/ \E c \in Sessions : \/ BSubscribe(c)
                           \/ BGet(c)
                           \/ BNext(c)
                           \/ BClose(c)

\* The broadcaster alone, with its subscribers as bare consumers.
InitBcast == InitWith(0) /\ redisUrlSet /\ inactivity_ttl = 0

SpecBcast == InitBcast /\ [][NextBcast]_vars

NextLog ==
    \/ \E in \in LogCalls : BLog(in)
    \/ \E c \in Sessions : \/ BSubscribe(c)
                           \/ BGet(c)
                           \/ BNext(c)
                           \/ BClose(c)

\* The broadcaster fed by log() calls.
SpecLog == InitBcast /\ [][NextLog]_vars

\* ------------------------------------------------------------------ claims
\* A session that has been admitted, has not entered its finally block and
\* is not about to (its wait has not run out).
Live(s) == pc[s] \in {"count", "loop", "wait", "emit", "yield"} /\ ~TimerDue(s)

LiveAdmitted(sub) ==
    {s \in Sessions : Live(s) /\ tok[s].kind = "jwt" /\ user_sub[s] = sub /\ acquired[s]}

\* C1: with the store reachable throughout (SpecUp), the number of live
\* token-authenticated sessions admitted for one subject never exceeds
\* max_slots, whatever the interleaving of starts, terminations, releases and
\* key expiries.
C1_LiveWithinCap ==
    \A sub \in SubClaims : Cardinality(LiveAdmitted(sub)) <= max_slots

AdmittedBy(k) == {s \in Sessions : pc[s] # "acquire" /\ SlotKey(user_sub[s]) = k /\ acquired[s]}

C2_AtMostM ==
    \A k \in SlotKeys : /\ Cardinality(AdmittedBy(k)) <= max_slots
                        /\ Cardinality(AdmittedBy(k)) <= Val(slots[k])
                        /\ Val(slots[k]) <= max_slots

C2_CountsOnce ==
    \A s \in Sessions :
       (pc[s] = "acquire" /\ pc'[s] # "acquire") =>
          LET k == SlotKey(user_sub[s]) IN
          /\ slots'[k] = IF acquired'[s] THEN Val(slots[k]) + 1 ELSE slots[k]
          /\ \A j \in SlotKeys \ {k} : slots'[j] = slots[j]

\* C2: for N concurrent user_slot_acquire calls on one key with max_slots = M
\* against a reachable store, with no release or expiry in between, at most M
\* return true, and a call raises the counter by exactly 1 when it returns
\* true and leaves it alone when it returns false.
C2_AtomicAcquire == [](C2_AtMostM) /\ [][C2_CountsOnce]_vars

\* C2 witness: M calls on one key have returned true and a further call on
\* the same key has been denied.
C2_Witness ==
    \E k \in SlotKeys : \E s \in Sessions :
       /\ Cardinality(AdmittedBy(k)) = max_slots
       /\ SlotKey(user_sub[s]) = k /\ exitWhy[s] = "429"
       /\ Cardinality({t \in Sessions : SlotKey(user_sub[t]) = k}) > max_slots

\* C3: the per-key slot counter is never below zero in any reachable state of
\* the store, the states between the two commands of one release included.
C3_CounterNonNegative ==
    \A k \in SlotKeys : slots[k] = Nil \/ slots[k] >= 0

\* C4: a session that has finished has called user_slot_release for its key
\* exactly once if it acquired a slot, and not at all otherwise, whatever the
\* value of the sub claim.
C4_ReleasedOnce ==
    \A s \in Sessions :
       pc[s] = "done" => released[s] = (IF acquired[s] THEN 1 ELSE 0)

\* C5: a token session whose token expires sooner than the inactivity timeout
\* and that ends by the wait timing out has incremented dropped_clients once
\* and leaves its subject's slot counter at the value it had before (zero, no
\* other client having connected).
C5_TokenExpiryDrop ==
    \A s \in Sessions :
       ( /\ pc[s] = "done" /\ exitWhy[s] = "timeout"
         /\ tok[s].kind = "jwt" /\ tok[s].exp < inactivity_ttl
         /\ \A o \in Sessions \ {s} : pc[o] = "idle" )
       => /\ metrics["dropped_clients"] = 1
          /\ Val(slots[SlotKey(user_sub[s])]) = 0

\* The deadline the claim states, from the token's expiry, the time the wait
\* began and the configured inactivity timeout.
C6_Expected(s) ==
    LET hasTok == tok[s].kind = "jwt"
        rem == RemainingTtl(tok[s].exp, waitStart[s])
    IN IF hasTok /\ inactivity_ttl # 0 THEN Min(rem, inactivity_ttl)
       ELSE IF hasTok THEN rem
       ELSE IF inactivity_ttl # 0 THEN inactivity_ttl
       ELSE Nil

C6_WaitBound ==
    \A s \in Sessions :
       pc[s] = "wait" =>
          /\ timeout[s] = C6_Expected(s)
          /\ timeout[s] # Nil => now <= Deadline(s)

C6_TimerSteps ==
    \A s \in Sessions :
       /\ (pc[s] # "wait" /\ pc'[s] = "wait") => waitStart'[s] = now'
       /\ (pc[s] = "wait" /\ exitWhy'[s] = "timeout") =>
             (timeout[s] # Nil /\ now = Deadline(s))

\* C6: in each iteration of the emit loop the wait lasts the minimum of the
\* remaining token lifetime (in whole seconds, as token_ttl measures it) and
\* the inactivity timeout, over whichever is configured, counted from the
\* start of that iteration; the wait never outlasts it, the session times out
\* exactly when it has elapsed, and with neither configured it never times out.
C6_EarliestDeadline == [](C6_WaitBound) /\ [][C6_TimerSteps]_vars

\* C6 witness: after a delivered event the wait was restarted, the remaining
\* token lifetime is now the smaller bound, and it has just elapsed.
C6_Witness ==
    \E s \in Sessions :
       /\ pc[s] = "wait" /\ nEvents[s] = 1 /\ tok[s].kind = "jwt"
       /\ inactivity_ttl # 0 /\ timeout[s] < inactivity_ttl
       /\ waitStart[s] > 0 /\ now = Deadline(s)

\* C7: a request naming a key id that is absent from the cache forces one
\* refresh and then answers (401 if the key is still absent): the ensure_keys
\* call of its forced refresh is never left waiting at line 70 for the lock
\* the request took itself at line 91.
C7_UnknownKid ==
    \A r \in Requests : rpc[r] = "forced_refresh" => lockHolder # r

Fetching == {r \in Requests : rpc[r] = "ek_fetch"}

C8_OneInFlight == Cardinality(Fetching) <= 1

C8_WaiterDoesNotFetch ==
    \A r \in Requests : rpc[r] = "ek_lock" => rpc'[r] # "ek_fetch"

\* C8: concurrent refreshes collapse into one fetch: never two fetches in
\* flight, and a request that queued for the lock while another request was
\* refreshing does not fetch again when its turn comes, whether the fetch it
\* waited for succeeded or failed.
C8_SingleFetch == [](C8_OneInFlight) /\ [][C8_WaiterDoesNotFetch]_vars

C9_FetchFailed(r) == rpc[r] = "ek_fetch" /\ rpc'[r] # "ek_fetch" /\ lastFetch' = "fail"

C9_Swallowed ==
    \A r \in Requests :
       (C9_FetchFailed(r) /\ keys_by_kid # {}) =>
          /\ res'[r] # "503"
          /\ keys_by_kid' = keys_by_kid

C9_RaisedOnlyEmpty ==
    \A r \in Requests :
       (C9_FetchFailed(r) /\ res'[r] = "503") => keys_by_kid = {}

\* C9: a refresh that fails while the cache holds keys is swallowed and
\* leaves the cached keys as they were; the failure reaches the caller (503)
\* only when the cache held no key.
C9_StaleKeysRetained == [][C9_Swallowed /\ C9_RaisedOnlyEmpty]_vars

C10_FailOpenStep ==
    \A s \in Sessions :
       /\ (pc[s] = "acquire" /\ ~Reachable /\ pc'[s] # "acquire") =>
             (acquired'[s] /\ pc'[s] = "count" /\ exitWhy'[s] = "none"
              /\ slots' = slots /\ slotExp' = slotExp)
       /\ (pc[s] \in {"release", "clamp"} /\ ~Reachable /\ pc'[s] # pc[s]) =>
             (pc'[s] = "dec_active" /\ slots' = slots /\ slotExp' = slotExp)

\* C10: while the store is unreachable, user_slot_acquire returns true without
\* touching the store and the session goes on as admitted, and
\* user_slot_release leaves the store alone and teardown goes on; neither
\* raises.
C10_FailOpen == [][C10_FailOpenStep]_vars

\* C10 witness: a session admitted by fail-open (no counter was written) has
\* gone through its release while the store was still unreachable.
C10_Witness ==
    \E s \in Sessions :
       /\ pc[s] = "dec_active" /\ acquired[s] /\ released[s] = 1
       /\ ~Reachable /\ slots[SlotKey(user_sub[s])] = Nil

\* C11: a session's start increment of active_connections is never lost: the
\* step that counts the new connection adds 1 either to the central counter
\* or, when the central increment fails, to the local fallback counter, on
\* the token path and on the anonymous path alike.
C11_MetricsFallback ==
    [][\A s \in Sessions :
          (pc[s] = "count" /\ pc'[s] = "loop") =>
             metrics'["active_connections"] + localActive'
                = metrics["active_connections"] + localActive + 1]_vars

\* C12: active_connections is never negative, in the central counter and in
\* the local fallback counter, sessions that fail authentication or are
\* denied admission included.
C12_ActiveNonNegative ==
    metrics["active_connections"] >= 0 /\ localActive >= 0

C13_Increasing(q) == \A i \in 1..Len(q) : \A j \in 1..Len(q) : i < j => q[i] < q[j]

C13_ChannelInOrder ==
    \A c \in Sessions :
       /\ C13_Increasing(queue[c])
       /\ \A i \in 1..Len(queue[c]) : lastGot[c] < queue[c][i] /\ queue[c][i] <= published

C13_PublishOnce ==
    published' = published + 1 =>
       \A c \in Sessions :
          queue'[c] = queue[c] \/ queue'[c] = Append(queue[c], published')

C13_ConsumeInOrder ==
    \A c \in Sessions :
       lastGot'[c] # lastGot[c] =>
          /\ lastGot'[c] = Head(queue[c])
          /\ lastGot'[c] > lastGot[c]
          /\ queue'[c] = Tail(queue[c])

\* C13: a publish puts the event in each channel at most once, at the end of
\* the channel; every channel holds its events in publish order, and every
\* subscriber takes them from the front, so it consumes them in publish order.
C13_FifoDelivery ==
    [](C13_ChannelInOrder) /\ [][C13_PublishOnce /\ C13_ConsumeInOrder]_vars

\* C13 witness: two registered subscribers; one has consumed two events one
\* after the other, the other still holds two events in its channel.
C13_Witness ==
    \E c \in Sessions : \E d \in Sessions \ {c} :
       /\ {c, d} \subseteq Subscribed
       /\ lastGot[c] = 2
       /\ Len(queue[d]) = 2

C14_AtCapacity(c) == Len(queue[c]) >= QUEUE_MAXSIZE

C14_PublishStep ==
    published' = published + 1 =>
       \A c \in Subscribed :
          IF C14_AtCapacity(c)
          THEN c \notin {subscribers'[i] : i \in 1..Len(subscribers')} /\ queue'[c] = queue[c]
          ELSE /\ c \in {subscribers'[i] : i \in 1..Len(subscribers')}
               /\ queue'[c] = Append(queue[c], published')

C14_NeverBlocked ==
    /\ \A c \in Sessions : Len(queue[c]) <= QUEUE_MAXSIZE
    /\ published < MaxPublished => ENABLED BPublish

\* C14: a publish that finds a subscriber's channel at capacity removes that
\* channel from the subscriber list and leaves its contents alone, delivers
\* the event to every other subscriber, and can always be taken: it never
\* waits for a consumer to drain a channel.
C14_SlowConsumerDropped == [](C14_NeverBlocked) /\ [][C14_PublishStep]_vars

\* C14 witness: a subscriber whose generator is still open has been dropped
\* with a full channel by the publish of the newest event, which the other,
\* still registered, subscriber holds.
C14_Witness ==
    \E c \in Sessions : \E d \in Sessions \ {c} :
       /\ gen[c] \in {"waiting", "yielded"} /\ c \notin Subscribed
       /\ Len(queue[c]) = QUEUE_MAXSIZE
       /\ \A i \in 1..Len(queue[c]) : queue[c][i] # published
       /\ d \in Subscribed
       /\ \E i \in 1..Len(queue[d]) : queue[d][i] = published

\* The steps of session s.
C15_StepOf(s) == pc'[s] # pc[s]

C15_Refused ==
    \A s \in Sessions :
       (pc[s] = "decode" /\ C15_StepOf(s)) =>
          IF tok[s].kind = "bad" \/ tok[s].exp = Nil
             \/ tok[s].exp * TicksPerSec - now < TicksPerSec
          THEN /\ exitWhy'[s] = "401" /\ pc'[s] = "dec_active"
               /\ ~acquired'[s] /\ slots' = slots /\ slotExp' = slotExp
          ELSE pc'[s] = "acquire"

C15_NoSlotTouched ==
    \A s \in Sessions :
       (exitWhy[s] = "401" /\ C15_StepOf(s)) =>
          /\ pc[s] # "release" /\ pc[s] # "clamp"
          /\ slots' = slots /\ slotExp' = slotExp /\ released'[s] = 0

\* C15: a session whose token fails verification, has less than a second
\* left, or has no exp claim ends with 401 straight from the decode step,
\* without an admission attempt, and neither that step nor any step of its
\* teardown changes a slot counter or calls user_slot_release.
C15_RefusedBeforeAdmission == [][C15_Refused /\ C15_NoSlotTouched]_vars

\* C15 witness: a session with a verified token without exp has gone through
\* its whole teardown with 401.
C15_Witness ==
    \E s \in Sessions :
       /\ pc[s] = "done" /\ exitWhy[s] = "401"
       /\ tok[s].kind = "jwt" /\ tok[s].exp = Nil
       /\ released[s] = 0

C16_Denied ==
    \A s \in Sessions :
       (pc[s] = "acquire" /\ C15_StepOf(s) /\ ~acquired'[s]) =>
          /\ exitWhy'[s] = "429" /\ pc'[s] = "dec_active"
          /\ slots' = slots /\ slotExp' = slotExp

C16_Teardown ==
    \A s \in Sessions :
       (exitWhy[s] = "429" /\ C15_StepOf(s)) =>
          /\ pc[s] # "release" /\ pc[s] # "clamp" /\ pc'[s] \in {"dec_active", "done"}
          /\ slots' = slots /\ slotExp' = slotExp /\ released'[s] = 0
          /\ subscribers' = subscribers

C16_NoChannel ==
    \A s \in Sessions : exitWhy[s] = "429" => (gen[s] = "none" /\ s \notin Subscribed)

\* C16: a session denied admission ends with 429 in the step of the denial,
\* which leaves the slot counter as it was; it never registers a channel
\* with the broadcaster and its teardown never calls user_slot_release.
C16_DeniedImmediately == [](C16_NoChannel) /\ [][C16_Denied /\ C16_Teardown]_vars

\* C16 witness: a denied session has finished while the counter of its key
\* still stands at the limit.
C16_Witness ==
    \E s \in Sessions :
       /\ pc[s] = "done" /\ exitWhy[s] = "429"
       /\ slots[SlotKey(user_sub[s])] = max_slots

C17_CancelStep ==
    \A s \in Sessions :
       (pc[s] = "wait" /\ exitWhy'[s] = "cancel") =>
          /\ pc'[s] \in {"release", "dec_active"}
          /\ metrics' = metrics

C17_NotCounted ==
    \A s \in Sessions :
       (exitWhy[s] = "cancel" /\ C15_StepOf(s)) =>
          metrics'["dropped_clients"] = metrics["dropped_clients"]

C17_AnyTime == \A s \in Sessions : pc[s] = "wait" => ENABLED Cancel(s)

\* C17: a client's disconnect can reach a waiting session in every state of
\* the wait, whatever remains of the deadline; it takes the session into its
\* finally block in that very step, and neither that step nor the teardown
\* increments dropped_clients.
C17_CancelPrompt == [](C17_AnyTime) /\ [][C17_CancelStep /\ C17_NotCounted]_vars

\* C17 witness: a session cancelled in its first wait, before any event and
\* while its token had time left, has finished; the metrics store worked and
\* dropped_clients is still 0.
C17_Witness ==
    \E s \in Sessions :
       /\ pc[s] = "done" /\ exitWhy[s] = "cancel" /\ gen[s] = "closed"
       /\ tok[s].kind = "jwt" /\ tok[s].exp * TicksPerSec > now + TicksPerSec
       /\ redisUrlSet /\ redisUp
       /\ metrics["active_connections"] = 0 /\ metrics["total_connections"] = 1
       /\ metrics["dropped_clients"] = 0 /\ metrics["events_sent"] = 0

C18_LoopStep ==
    \A s \in Sessions :
       (pc[s] = "loop" /\ C15_StepOf(s)) =>
          IF tok[s].kind = "jwt" /\ tok[s].exp * TicksPerSec - now < TicksPerSec
          THEN exitWhy'[s] = "expired" /\ pc'[s] \in {"release", "dec_active"}
          ELSE /\ pc'[s] = "wait"
               /\ tok[s].kind = "jwt" =>
                     /\ token_ttl'[s] = (tok[s].exp * TicksPerSec - now) \div TicksPerSec
                     /\ token_ttl'[s] > 0

\* C18: every iteration of the emit loop of a token session starts by
\* recomputing the remaining lifetime from the token's exp; when less than a
\* whole second is left the session ends with 401 (token expired) instead of
\* waiting, also right after an event has been delivered.
C18_ExpiryRechecked == [][C18_LoopStep]_vars

\* C18 witness: with an inactivity timeout configured, a session delivered
\* an event and was then ended by the expiry check, not by a timeout.
C18_Witness ==
    \E s \in Sessions :
       /\ exitWhy[s] = "expired" /\ inactivity_ttl # 0
       /\ metrics["events_sent"] = 1 /\ metrics["dropped_clients"] = 0

\* C19: every received event yields exactly one frame - the placeholder when
\* the event cannot be serialized - and increments events_sent, and the
\* session stays in the emit loop.
C19_PlaceholderFrame ==
    [][\A s \in Sessions :
          (pc[s] = "emit" /\ C15_StepOf(s)) =>
             /\ pc'[s] = "yield"
             /\ frame'[s] = (IF item[s] = "bad" THEN "error" ELSE "data")
             /\ metrics'["events_sent"] = metrics["events_sent"] + 1]_vars

\* C20: once a session has terminated, by whatever path, its channel is no
\* longer in the broadcaster's subscriber list.
C20_Deregistered ==
    \A s \in Sessions : pc[s] = "done" => s \notin Subscribed

\* C21: once a channel has left the subscriber list, by the finally block of
\* its generator or by a publish that found it full, no publish writes an
\* event into it and nothing registers it again. A publish and a removal both
\* run under the lock with no await inside, so each is one step.
C21_Removed(c) == gen[c] # "none" /\ c \notin Subscribed

C21_ClosedIsRemoved ==
    \A c \in Sessions : gen[c] = "closed" => c \notin Subscribed

C21_NoWrite ==
    \A c \in Sessions :
        C21_Removed(c) =>
            /\ c \notin {subscribers'[i] : i \in 1..Len(subscribers')}
            /\ \A i \in 1..Len(queue'[c]) :
                   \E j \in 1..Len(queue[c]) : queue'[c][i] = queue[c][j]

C21_NoWriteAfterRemoval == [](C21_ClosedIsRemoved) /\ [][C21_NoWrite]_vars

\* A channel dropped as full still holds its QUEUE_MAXSIZE events, and at
\* least one event has been published after the publish that dropped it.
C21_Witness ==
    \E c \in Sessions :
        /\ C21_Removed(c)
        /\ gen[c] # "closed"
        /\ Len(queue[c]) = QUEUE_MAXSIZE
        /\ published >= queue[c][Len(queue[c])] + 2
        /\ \E d \in Subscribed : queue[d] # <<>> /\ queue[d][Len(queue[d])] = published

\* C22: the sinks of log() are independent: after every call the webhook
\* (when one is configured), the insert (when the audit table is configured)
\* and the publish to the broadcaster have all been attempted, whatever
\* failed, the writing of the log record included.
C22_SinksIndependent ==
    logged.called =>
        /\ logged.in.webhook # "unset" => logged.webhook
        /\ logged.in.db # "unset" => logged.db
        /\ logged.broadcast

\* C23: an acquire that succeeds on a counter that is unset or zero sets the
\* key's TTL to the slot TTL, and no other acquire changes the TTL (so the
\* lease of a session that never releases runs its full slot TTL and then
\* expires).
C23_TtlOnFirstIncrement ==
    [][\A s \in Sessions :
          (pc[s] = "acquire" /\ C15_StepOf(s) /\ Reachable) =>
              LET k == SlotKey(user_sub[s])
              IN IF acquired'[s] /\ Val(slots[k]) = 0
                 THEN slotExp'[k] = now + STREAM_SLOT_TTL * TicksPerSec
                 ELSE slotExp'[k] = slotExp[k]]_vars

\* C24: a session opened without a token never comes to the admission
\* controller (no step of it reads or writes a slot counter), adds one to
\* active_connections and to total_connections when it starts, and takes one
\* from active_connections at teardown.
C24_ActiveCount == metrics["active_connections"] + localActive

C24_AnonymousStep(s) ==
    /\ pc[s] \notin {"acquire", "release", "clamp"}
    /\ slots' = slots /\ slotExp' = slotExp
    /\ (pc[s] = "count") =>
          /\ C24_ActiveCount' = C24_ActiveCount + 1
          /\ metrics'["total_connections"] = metrics["total_connections"] + 1
    /\ (pc[s] = "dec_active") => C24_ActiveCount' = C24_ActiveCount - 1

C24_AnonymousSession ==
    [][\A s \in Sessions :
          (tok[s] = NoToken /\ pc[s] # "idle" /\ C15_StepOf(s)) => C24_AnonymousStep(s)]_vars

\* C25: a role-guarded endpoint answers 401 to a request without bearer
\* credentials, 403 to a verified token none of whose roles is accepted, and
\* lets the request through when the token is correctly signed by a known
\* key, is not expired, carries the configured audience and issuer and
\* names at least one accepted role, whatever the case of its letters.
C25_HasAcceptedRole(roles) ==
    \E n \in roles.names : \E a \in AcceptedRoles : Lower(n) = Lower(a)

C25_WellSigned(r) ==
    /\ r.creds = "bearer"
    /\ r.token.kid /\ r.lookup = "key" /\ r.token.sig = "good"
    /\ r.token.exp # "past"
    /\ r.cfg.domain /\ r.token.iss = "tenant"
    /\ r.cfg.audience /\ r.token.aud = "api"

C25_RoleGuard ==
    request # NoRequest =>
        /\ request.creds = "none" => response = "401"
        /\ (GetCurrentUser(request) = "200" /\ ~C25_HasAcceptedRole(request.token.roles))
              => response = "403"
        /\ (C25_WellSigned(request) /\ C25_HasAcceptedRole(request.token.roles))
              => response = "200"

\* C26: a correctly signed token whose audience or issuer differs from the
\* configured one is refused with 401; with an audience configured a token
\* without aud or without iss is refused; with no audience configured a
\* token needs only exp and iat to verify.
C26_Verifiable(r) ==
    /\ r.creds = "bearer"
    /\ r.token.kid /\ r.lookup = "key" /\ r.token.sig = "good"

C26_AudienceIssuer ==
    (request # NoRequest /\ C26_Verifiable(request)) =>
        LET t == request.token
            cfg == request.cfg
            status == GetCurrentUser(request)
        IN /\ (cfg.audience /\ t.aud = "other") => status = "401"
           /\ (cfg.domain /\ t.iss = "other") => status = "401"
           /\ (cfg.audience /\ (t.aud = "absent" \/ t.iss = "absent")) => status = "401"
           /\ (~cfg.audience /\ t.exp = "future" /\ t.iat
                 /\ t.aud = "absent" /\ t.iss = "absent") => status = "200"

\* C27: whether a session is admitted depends on the slot counter of its
\* subject and the limit alone: whatever the metrics hash and the local
\* connection counter hold, the session is admitted exactly when the counter
\* is below the limit, and the admission step leaves the metrics alone.
C27_AdmitStep ==
    \A s \in Sessions :
        (pc[s] = "acquire" /\ C15_StepOf(s)) =>
            /\ acquired'[s] = (Val(slots[SlotKey(user_sub[s])]) < max_slots)
            /\ metrics' = metrics /\ localActive' = localActive

C27_MetricsDoNotGate == [][C27_AdmitStep]_vars

\* Both connection counters stand at the limit; one session has been
\* admitted all the same, and another of the same subject refused.
C27_Witness ==
    /\ metrics["active_connections"] >= max_slots /\ localActive >= max_slots
    /\ \E s, d \in Sessions :
          /\ user_sub[s] = user_sub[d]
          /\ acquired[s] /\ pc[s] = "count"
          /\ ~acquired[d] /\ exitWhy[d] = "429"

\* C28: a release is one atomic update of the counter, so it never writes
\* over what an acquire has written: when the second command of a release
\* (the correcting SET) runs, the key still holds what the release's own
\* DECR left, a negative value without a TTL, and no acquire's increment.
C28_ReleaseKeepsIncrements ==
    [][\A s \in Sessions :
          (pc[s] = "clamp" /\ C15_StepOf(s) /\ Reachable) =>
              LET k == SlotKey(user_sub[s])
              IN slots[k] # Nil /\ slots[k] < 0 /\ slotExp[k] = Nil]_vars

\* C29: every call of get_signing_key returns or raises, given that every
\* fetch completes: as long as some request has not got its answer, a request
\* can run (one that has been handed the lock) or a fetch is under way whose
\* completion lets one run; no request waits for a lock nobody will release.
C29_CanProceed(r) ==
    \/ rpc[r] = "ek_fetch"
    \/ ENABLED JWake(r)
    \/ ENABLED JWakeForced(r)

C29_NoRequestBlocksForever ==
    (\E r \in Requests : rpc[r] \notin {"idle", "done"}) =>
        \E q \in Requests : C29_CanProceed(q)

\* C30: ensure_keys starts no fetch while the cached document is non-empty
\* and younger than the TTL, and otherwise goes for a fetch (at once, or
\* after waiting for the lock, where it checks again); a fetch that succeeds
\* makes the cached key set exactly the fetched keys that carry a kid and
\* sets last_refresh to the current time (which the caller's forced refresh
\* may zero again before anything else runs).
C30_Fresh == jwks \in {"jwks", "junk"} /\ jnow - last_refresh < JWKS_CACHE_TTL

C30_Called(r) ==
    \/ rpc[r] = "idle" /\ rpc'[r] # "idle"
    \/ rpc[r] = "ek_lock" /\ rpc'[r] # "ek_lock"

C30_FetchIffStale ==
    \A r \in Requests :
        /\ C30_Called(r) =>
              IF C30_Fresh
              THEN rpc'[r] \notin {"ek_fetch", "ek_lock"}
              ELSE rpc'[r] = (IF lockHolder \in {0, r} THEN "ek_fetch" ELSE "ek_lock")
        /\ (rpc[r] # "ek_fetch" /\ rpc'[r] = "ek_fetch") => ~C30_Fresh

C30_FetchReplaces ==
    \A r \in Requests :
        (rpc[r] = "ek_fetch" /\ rpc'[r] # "ek_fetch" /\ lastFetch' = "ok") =>
            /\ keys_by_kid' = jwks_kids' \ {""}
            /\ last_refresh' = (IF rpc'[r] = "forced_refresh" THEN 0 ELSE jnow)

C30_RefreshOnlyIfStale == [][C30_FetchIffStale /\ C30_FetchReplaces]_vars

\* A fetch has succeeded on a document that holds a key with a kid and an
\* entry without one, and a request has been answered from the fresh cache.
C30_Witness ==
    /\ lastFetch = "ok" /\ "" \in jwks_kids /\ keys_by_kid # {}
    /\ keys_by_kid = jwks_kids \ {""}
    /\ last_refresh = jnow
    /\ \E r \in Requests : rpc[r] = "done" /\ res[r] = "ok"

\* C31: user_slot_release reaches the store only for a session whose acquire
\* incremented the counter: a session admitted by the fail-open branch while
\* the store was unreachable never changes a slot counter at teardown.
C31_ReleaseOnlyOwnIncrement ==
    [][\A s \in Sessions :
          (pc[s] \in {"release", "clamp"} /\ C15_StepOf(s) /\ failed_open[s]) =>
              slots' = slots]_vars

\* C32: every session changes active_connections by net zero: once every
\* session that started has terminated, the central counter and the local
\* counter are back at the values they had before any session started.
C32_NetZero ==
    (\A s \in Sessions : pc[s] \in {"idle", "done"}) =>
        metrics["active_connections"] = 0 /\ localActive = 0

\* The round trip of await hincrby("events_sent", 1) (line 119) sits between
\* the arrival of the item and the yield of its frame; neither wait_for nor
\* the store client bounds it, so the clock can advance while a session is
\* in it (with REDIS_URL unset hincrby raises at once, before any await).
StoreDelay ==
    /\ redisUrlSet
    /\ now < MaxTime
    /\ \E s \in Sessions : pc[s] = "emit"
    /\ \A s \in Sessions : Suspended(s) \/ pc[s] = "emit"
    /\ \A s \in Sessions : ~TimerDue(s)
    /\ \A k \in SlotKeys : ~KeyDue(k)
    /\ now' = now + 1
    /\ UNCHANGED <<bqVars, subVars, jwksVars, auxVars, cfgVars, redisUp, slots, slotExp,
                   metrics, localActive, pc, sessVars>>

NextDelay ==
    \/ Next
    \/ StoreDelay

\* One client, as in Spec, with store round trips that take time.
SpecDelay == Init /\ [][NextDelay]_vars

\* C33: a token-authenticated session never yields a frame at or after the
\* expiry time of its token: at every step that yields a frame the clock is
\* still before exp.
C33_NoFrameAfterExpiry ==
    [][\A s \in Sessions :
          (pc[s] = "emit" /\ pc'[s] = "yield" /\ token_ttl[s] # Nil) =>
              now' < tok[s].exp * TicksPerSec]_vars

\* C34: a user_slot_acquire that is denied leaves the counter of its key and
\* the key's TTL as they were.
C34_DeniedUnchanged ==
    [][\A s \in Sessions :
          (pc[s] = "acquire" /\ C15_StepOf(s) /\ ~acquired'[s]) =>
              (slots' = slots /\ slotExp' = slotExp)]_vars

C34_Witness ==
    \E s \in Sessions :
       LET k == SlotKey(user_sub[s])
       IN /\ exitWhy[s] = "429"
          /\ AdmittedBy(k) = {}
          /\ slots[k] = max_slots
          /\ slotExp[k] = STREAM_SLOT_TTL * TicksPerSec

\* ------------------------------------------------- request rate limiters
\* One rate-limit key (one client) is followed. The store's counter key is
\* rl_count with expiry rl_exp; both are Nil while the key does not exist.
RlPeriodTicks == DEFAULT_WINDOW * TicksPerSec

\* A limiter that admits until the list is longer than the limit.
LocalLimitExceeded(n, limit) == n > limit

\* if len(_local_rate_limits[key]) >= limit: return False
LocalLimitReached(n, limit) == n >= limit

\* [ts for ts in _local_rate_limits[key] if now - ts < window]
LocalPrune(list, t, window) ==
    SelectSeq(list, LAMBDA ts : t - ts < window * TicksPerSec)

\* check_rate_limit_local, the body under _local_lock: the new list of
\* timestamps and the value returned.
CheckRateLimitLocal(list, t, limit, window) ==
    LET kept == LocalPrune(list, t, window)
    IN IF LocalLimitReached(Len(kept), limit)
       THEN [list |-> kept, ok |-> FALSE]
       ELSE [list |-> Append(kept, t), ok |-> TRUE]

\* rate_limit_check's result once INCR has replied `val`:
\* return int(val) <= int(limit).
RateLimitAllowed(val, limit) == val <= limit

\* What rate_limit_check hands to its caller: the reply-based result, or True
\* from the except branch (lines 33-35). No Exception leaves the function.
RateLimitOutcome(failed, val, limit) ==
    [raised |-> FALSE,
     value  |-> IF failed THEN TRUE ELSE RateLimitAllowed(val, limit)]

\* rate_limit_middleware, lines 72-81: the store-backed check, the in-memory
\* check when that one raises, then the 429 response or call_next.
Decide(c, out, failed) ==
    LET loc == CheckRateLimitLocal(local_rate_limits, rl_now,
                                   DEFAULT_RATE_LIMIT, DEFAULT_WINDOW)
        allowed == IF out.raised THEN loc.ok ELSE out.value
    IN /\ rl_via' = [rl_via EXCEPT ![c] = IF out.raised THEN "local" ELSE "redis"]
       /\ local_rate_limits' = IF out.raised THEN loc.list ELSE local_rate_limits
       /\ local_hist' = IF out.raised
                        THEN Append(local_hist, [t |-> rl_now, ok |-> loc.ok])
                        ELSE local_hist
       /\ rl_res' = [rl_res EXCEPT ![c] = IF allowed THEN "allow" ELSE "429"]
       /\ rl_err' = [rl_err EXCEPT ![c] = failed]
       /\ rl_pc' = [rl_pc EXCEPT ![c] = "done"]

\* A request reaches the middleware, which calls rate_limit_check.
RlStart(c) ==
    /\ rl_pc[c] = "idle"
    /\ rl_calls < MaxCalls
    /\ rl_calls' = rl_calls + 1
    /\ rl_pc' = [rl_pc EXCEPT ![c] = "incr"]
    /\ UNCHANGED <<rl_now, rl_up, rl_count, rl_exp, rl_val, rl_res, rl_err, rl_via,
                   local_rate_limits, local_hist, local_metrics,
                   appVars, jwksVars>>

\* val = await r.incr(key): the reply, or the error of an unreachable store.
RlIncr(c) ==
    /\ rl_pc[c] = "incr"
    /\ IF ~rl_up
       THEN /\ Decide(c, RateLimitOutcome(TRUE, Nil, DEFAULT_RATE_LIMIT), TRUE)
            /\ UNCHANGED <<rl_count, rl_val>>
       ELSE LET v == Val(rl_count) + 1
            IN /\ rl_count' = v
               /\ rl_val' = [rl_val EXCEPT ![c] = v]
               /\ IF v = 1
                  THEN /\ rl_pc' = [rl_pc EXCEPT ![c] = "expire"]
                       /\ UNCHANGED <<rl_res, rl_err, rl_via, local_rate_limits,
                                      local_hist>>
                  ELSE Decide(c, RateLimitOutcome(FALSE, v, DEFAULT_RATE_LIMIT), FALSE)
    /\ UNCHANGED <<rl_now, rl_up, rl_exp, rl_calls, local_metrics, appVars, jwksVars>>

\* if val == 1: await r.expire(key, period).
RlExpire(c) ==
    /\ rl_pc[c] = "expire"
    /\ IF ~rl_up
       THEN /\ Decide(c, RateLimitOutcome(TRUE, rl_val[c], DEFAULT_RATE_LIMIT), TRUE)
            /\ UNCHANGED rl_exp
       ELSE /\ rl_exp' = IF rl_count = Nil THEN Nil ELSE rl_now + RlPeriodTicks
            /\ Decide(c, RateLimitOutcome(FALSE, rl_val[c], DEFAULT_RATE_LIMIT), FALSE)
    /\ UNCHANGED <<rl_now, rl_up, rl_count, rl_val, rl_calls, local_metrics,
                   appVars, jwksVars>>

\* The request's task is cancelled while it waits for the store:
\* CancelledError is not an Exception, so it passes both except clauses and
\* the request ends without a decision.
RlCancel(c) ==
    /\ rl_pc[c] \in {"incr", "expire"}
    /\ rl_pc' = [rl_pc EXCEPT ![c] = "done"]
    /\ rl_res' = [rl_res EXCEPT ![c] = "cancelled"]
    /\ UNCHANGED <<rl_now, rl_up, rl_count, rl_exp, rl_val, rl_err, rl_via, rl_calls,
                   local_rate_limits, local_hist, local_metrics, appVars, jwksVars>>

\* The client sends its next request.
RlAgain(c) ==
    /\ rl_pc[c] = "done"
    /\ rl_pc' = [rl_pc EXCEPT ![c] = "idle"]
    /\ rl_val' = [rl_val EXCEPT ![c] = Nil]
    /\ rl_res' = [rl_res EXCEPT ![c] = "none"]
    /\ rl_err' = [rl_err EXCEPT ![c] = FALSE]
    /\ rl_via' = [rl_via EXCEPT ![c] = "none"]
    /\ UNCHANGED <<rl_now, rl_up, rl_count, rl_exp, rl_calls, local_rate_limits,
                   local_hist, local_metrics, appVars, jwksVars>>

RlKeyDue == rl_exp # Nil /\ rl_now >= rl_exp

\* The server drops the counter key when its TTL has run out.
RlExpireKey ==
    /\ RlKeyDue
    /\ rl_count' = Nil
    /\ rl_exp' = Nil
    /\ UNCHANGED <<rl_now, rl_up, rl_pc, rl_val, rl_res, rl_err, rl_via, rl_calls,
                   local_rate_limits, local_hist, local_metrics, appVars, jwksVars>>

\* time.time() and the store's clock advance.
RlTick ==
    /\ rl_now < MaxTime
    /\ ~RlKeyDue
    /\ rl_now' = rl_now + 1
    /\ UNCHANGED <<rlVars, local_rate_limits, local_hist, local_metrics,
                   appVars, jwksVars>>

RlDown ==
    /\ rl_up
    /\ rl_up' = FALSE
    /\ UNCHANGED <<rl_now, rl_count, rl_exp, rl_pc, rl_val, rl_res, rl_err, rl_via,
                   rl_calls, local_rate_limits, local_hist, local_metrics,
                   appVars, jwksVars>>

RlRecover ==
    /\ ~rl_up
    /\ rl_up' = TRUE
    /\ UNCHANGED <<rl_now, rl_count, rl_exp, rl_pc, rl_val, rl_res, rl_err, rl_via,
                   rl_calls, local_rate_limits, local_hist, local_metrics,
                   appVars, jwksVars>>

NextRate ==
    \/ \E c \in LimCalls : \/ RlStart(c)
                           \/ RlIncr(c)
                           \/ RlExpire(c)
                           \/ RlCancel(c)
                           \/ RlAgain(c)
    \/ RlExpireKey
    \/ RlTick
    \/ RlDown
    \/ RlRecover

\* Requests of one client pass through rate_limit_middleware.
SpecRate == InitBcast /\ [][NextRate]_vars

\* check_rate_limit_local called directly, at any time of the clock.
LocalCall ==
    /\ Len(local_hist) < MaxCalls
    /\ LET r == CheckRateLimitLocal(local_rate_limits, rl_now,
                                    DEFAULT_RATE_LIMIT, DEFAULT_WINDOW)
       IN /\ local_rate_limits' = r.list
          /\ local_hist' = Append(local_hist, [t |-> rl_now, ok |-> r.ok])
    /\ UNCHANGED <<rl_now, rlVars, local_metrics, appVars, jwksVars>>

NextLocal ==
    \/ LocalCall
    \/ RlTick

SpecLocal == InitBcast /\ [][NextLocal]_vars

\* C35: with the store's replies, rate_limit_check allows a call exactly when
\* it is among the first `limit` of its period; every counter key it has
\* created carries an expiry once the creating call is past its EXPIRE (so a
\* refused client is allowed again when the period is over); and a call that
\* met a store error is allowed.
C35_FixedWindow ==
    /\ \A c \in LimCalls :
          (rl_pc[c] = "done" /\ rl_res[c] # "cancelled") =>
              IF rl_err[c] THEN rl_res[c] = "allow"
              ELSE (rl_res[c] = "allow") = (rl_val[c] <= DEFAULT_RATE_LIMIT)
    /\ (rl_count # Nil /\ \A c \in LimCalls : rl_pc[c] # "expire") => rl_exp # Nil

\* C36: a request whose store-backed check met an unreachable store is
\* decided by check_rate_limit_local.
C36_FallsBackToLocal ==
    \A c \in LimCalls :
       (rl_pc[c] = "done" /\ rl_err[c]) => rl_via[c] = "local"

C37_WindowTicks == DEFAULT_WINDOW * TicksPerSec

\* The admitted calls up to call i that lie less than one window before it.
C37_AdmittedNear(i) ==
    {j \in 1..i : local_hist[j].ok /\ local_hist[i].t - local_hist[j].t < C37_WindowTicks}

\* The timestamps a limiter that records admitted calls only holds after its
\* last call.
C37_Recorded ==
    LET n == Len(local_hist)
        kept == SelectSeq(local_hist,
                          LAMBDA h : h.ok /\ local_hist[n].t - h.t < C37_WindowTicks)
    IN [k \in 1..Len(kept) |-> kept[k].t]

\* C37: of the check_rate_limit_local calls whose times lie within any
\* interval shorter than the window at most `limit` return True, and the
\* timestamp list holds the times of admitted calls only.
C37_SlidingWindow ==
    /\ \A i \in 1..Len(local_hist) :
          Cardinality(C37_AdmittedNear(i)) <= DEFAULT_RATE_LIMIT
    /\ local_hist # <<>> => local_rate_limits = C37_Recorded

C37_Witness ==
    \E i, j \in 1..Len(local_hist) :
       /\ i < j
       /\ ~local_hist[i].ok
       /\ local_hist[j].ok
       /\ local_hist[j].t - local_hist[i].t < C37_WindowTicks

\* ------------------------------------------------- concurrent log() calls
\* A handler calls AuditLogger.log: the payload is built and handed to the
\* logger and the webhook thread (lines 73-84). With the audit table
\* configured the call then waits in insert_audit (line 89); without it the
\* call runs on into _broadcast, whose lock is free (no holder ever waits
\* while holding it). The event is known by the number of its log() call.
PLogStart(p, db) ==
    /\ prod_pc[p] = "idle"
    /\ log_calls < MaxLogCalls
    /\ log_calls' = log_calls + 1
    /\ IF db
       THEN /\ prod_pc' = [prod_pc EXCEPT ![p] = "insert"]
            /\ prod_ev' = [prod_ev EXCEPT ![p] = log_calls + 1]
            /\ UNCHANGED <<subscribers, queue, published>>
       ELSE LET r == Broadcast(subscribers, queue, log_calls + 1)
            IN /\ subscribers' = r.subs
               /\ queue' = r.queue
               /\ published' = published + 1
               /\ UNCHANGED <<prod_pc, prod_ev>>
    /\ UNCHANGED <<gen, lastGot, logged, request, response, limVars, got, jwksVars, now,
                   cfgVars, redisUp, slots, slotExp, metrics, localActive, pc, sessVars>>

\* insert_audit has returned or raised (lines 90-91): await self._broadcast.
PBroadcast(p) ==
    /\ prod_pc[p] = "insert"
    /\ LET r == Broadcast(subscribers, queue, prod_ev[p])
       IN /\ subscribers' = r.subs
          /\ queue' = r.queue
    /\ published' = published + 1
    /\ prod_pc' = [prod_pc EXCEPT ![p] = "idle"]
    /\ prod_ev' = [prod_ev EXCEPT ![p] = 0]
    /\ UNCHANGED <<gen, lastGot, logged, request, response, limVars, log_calls, got, jwksVars,
                   now, cfgVars, redisUp, slots, slotExp, metrics, localActive, pc, sessVars>>

NextProd ==
    \/ \E p \in Producers : \/ \E db \in BOOLEAN : PLogStart(p, db)
                            \/ PBroadcast(p)
    \/ \E c \in Sessions : \/ BSubscribe(c)
                           \/ BGot(c)
                           \/ BNext(c)
                           \/ BClose(c)

\* The broadcaster fed by handlers whose log() calls overlap.
SpecProd == InitBcast /\ [][NextProd]_vars

C38_Pos(c, e) == CHOOSE i \in 1..Len(got[c]) : got[c][i] = e

C38_Received(c) == {got[c][i] : i \in 1..Len(got[c])}

\* C38: two subscribers that have both received events e1 and e2 received
\* them in the same relative order, whatever the overlap of the log() calls
\* that published them.
C38_SameRelativeOrder ==
    \A c, d \in Sessions :
       \A e1, e2 \in C38_Received(c) \cap C38_Received(d) :
          (C38_Pos(c, e1) < C38_Pos(c, e2)) = (C38_Pos(d, e1) < C38_Pos(d, e2))

\* C38 witness: two subscribers have both received the events of the first
\* two log() calls, the second call's event first.
C38_Witness ==
    \E c \in Sessions : \E d \in Sessions \ {c} :
       /\ {1, 2} \subseteq C38_Received(c) \cap C38_Received(d)
       /\ C38_Pos(c, 2) < C38_Pos(c, 1)

\* ---------------------------------------------------- local metrics module
\* user_stream_acquire(user_sub), the body under _metrics_lock.
UserStreamAcquire(u) ==
    /\ local_metrics.total_connections < MaxConnections
    /\ LET count == local_metrics.per_user_streams[u]
       IN IF count >= MAX_STREAMS_PER_USER
          THEN UNCHANGED local_metrics
          ELSE local_metrics' =
                  [active_connections |-> local_metrics.active_connections + 1,
                   total_connections |-> local_metrics.total_connections + 1,
                   per_user_streams |->
                      [local_metrics.per_user_streams EXCEPT ![u] = count + 1]]
    /\ UNCHANGED <<rl_now, rlVars, local_rate_limits, local_hist, appVars, jwksVars>>

\* max(0, int(_metrics.get("active_connections", 0)) - 1)
ClampedDec(n) == IF n - 1 > 0 THEN n - 1 ELSE 0

\* user_stream_release(user_sub), the body under _metrics_lock.
UserStreamRelease(u) ==
    /\ LET count == local_metrics.per_user_streams[u]
       IN local_metrics' =
             [active_connections |-> ClampedDec(local_metrics.active_connections),
              total_connections |-> local_metrics.total_connections,
              per_user_streams |->
                 IF count > 0
                 THEN [local_metrics.per_user_streams EXCEPT ![u] = count - 1]
                 ELSE local_metrics.per_user_streams]
    /\ UNCHANGED <<rl_now, rlVars, local_rate_limits, local_hist, appVars, jwksVars>>

NextMetrics ==
    \E u \in StreamUsers : \/ UserStreamAcquire(u)
                           \/ UserStreamRelease(u)

\* Any sequence of acquire and release calls on the local metrics module.
SpecMetrics == InitBcast /\ [][NextMetrics]_vars

RECURSIVE C39_Sum(_, _)
C39_Sum(f, S) ==
    IF S = {} THEN 0
    ELSE LET u == CHOOSE x \in S : TRUE IN f[u] + C39_Sum(f, S \ {u})

\* C39: every per-user stream count lies in 0..MAX_STREAMS_PER_USER and
\* active_connections equals the sum of the per-user stream counts.
C39_CountsConsistent ==
    /\ \A u \in StreamUsers :
          local_metrics.per_user_streams[u] \in 0..MAX_STREAMS_PER_USER
    /\ local_metrics.active_connections =
          C39_Sum(local_metrics.per_user_streams, StreamUsers)
====
